---- MODULE Spec2Model ----
\* Reply pipeline of the WhatsApp ghostwriter: thinkAndReply (chain.js) driving
\* Think -> Decide -> Write -> [Verify <-> Rewrite] and its caller
\* sendDebouncedReply (auto-reply.js).  Texts are sequences of one-character
\* strings so that the code's regular expressions and trims are computed, not
\* assumed.
EXTENDS Integers, Sequences, FiniteSets, Bags, TLC

\* ---------------------------------------------------------------------------
\* Text primitives (JavaScript string semantics on the characters used here)
\* ---------------------------------------------------------------------------

\* JavaScript null / undefined for a text-valued variable.  It is a sequence so
\* that it can be compared with texts, and it is not a text: its only element is
\* not a single character.
NULL == <<"null">>

UpperChars == <<"A", "B", "C", "D", "E", "F", "G", "H", "I", "J", "K", "L", "M",
                "N", "O", "P", "Q", "R", "S", "T", "U", "V", "W", "X", "Y", "Z">>
LowerChars == <<"a", "b", "c", "d", "e", "f", "g", "h", "i", "j", "k", "l", "m",
                "n", "o", "p", "q", "r", "s", "t", "u", "v", "w", "x", "y", "z">>

\* String.prototype.toLowerCase on one character.
LowerChar(c) ==
    IF \E i \in 1..Len(UpperChars) : UpperChars[i] = c
    THEN LowerChars[CHOOSE i \in 1..Len(UpperChars) : UpperChars[i] = c]
    ELSE c

toLowerCase(s) == [i \in 1..Len(s) |-> LowerChar(s[i])]

\* The regular-expression class \s, on the characters used here.
IsSpace(c) == c \in {" ", "\n"}

\* The character class ["'].
IsQuote(c) == c \in {"\"", "'"}

\* String.prototype.trim.
trim(s) ==
    LET keep == {i \in 1..Len(s) : ~IsSpace(s[i])}
    IN  IF keep = {} THEN <<>>
        ELSE LET lo == CHOOSE i \in keep : \A j \in keep : i <= j
                 hi == CHOOSE i \in keep : \A j \in keep : j <= i
             IN  SubSeq(s, lo, hi)

\* s.startsWith(p)
startsWith(s, p) == Len(p) <= Len(s) /\ SubSeq(s, 1, Len(p)) = p

\* s.slice(n): the text from 0-based index n on.
sliceFrom(s, n) == SubSeq(s, n + 1, Len(s))

\* s.replace(/^["']|["']$/g, ''): a global replace scanning left to right; the
\* first alternative can match only at index 0 and the second only the last
\* character, and a one-character text is consumed by the first match.
StripQuotes(s) ==
    LET a == IF Len(s) > 0 /\ IsQuote(s[1]) THEN Tail(s) ELSE s
    IN  IF Len(a) > 0 /\ IsQuote(a[Len(a)]) THEN SubSeq(a, 1, Len(a) - 1) ELSE a

\* s.split(/\s+/).length: one more than the number of maximal runs of
\* whitespace (a leading or trailing run yields an empty piece, which counts).
WordCount(s) ==
    1 + Cardinality({i \in 1..Len(s) : IsSpace(s[i]) /\ (i = 1 \/ ~IsSpace(s[i - 1]))})

\* A text of n copies of the character c.
Rep(c, n) == [i \in 1..n |-> c]

\* A text of n one-letter words separated by single spaces.
Words(n) == [i \in 1..(2 * n - 1) |-> IF i % 2 = 1 THEN "w" ELSE " "]


DigitChars == <<"0", "1", "2", "3", "4", "5", "6", "7", "8", "9">>

\* Template-literal formatting of a non-negative integer.
RECURSIVE Digits(_)
Digits(n) ==
    IF n < 10 THEN <<DigitChars[n + 1]>>
    ELSE Digits(n \div 10) \o <<DigitChars[(n % 10) + 1]>>

\* The last index of the line of s that index p is on ('.' matches no newline).
LineEnd(s, p) ==
    CHOOSE q \in p..Len(s) :
        /\ \A k \in p..q : s[k] # "\n"
        /\ (q = Len(s) \/ s[q + 1] = "\n")

\* s.match(/LABEL\s*(.+)/i) tried at index i: the first index of group 1, or 0 if
\* the expression does not match there.  \s* is greedy and gives characters back
\* until '.' finds a character that is not a newline.
CaptureStart(s, label, i) ==
    LET j == i + Len(label)
        ok == {p \in j..Len(s) :
                  /\ \A k \in j..(p - 1) : IsSpace(s[k])
                  /\ s[p] # "\n"}
    IN  IF i + Len(label) - 1 > Len(s) THEN 0
        ELSE IF toLowerCase(SubSeq(s, i, j - 1)) # toLowerCase(label) THEN 0
        ELSE IF ok = {} THEN 0
        ELSE CHOOSE p \in ok : \A r \in ok : r <= p

\* s.match(/LABEL\s*(.+)/i): group 1 of the leftmost match, or NULL if there is
\* no match.
MatchLabel(s, label) ==
    LET occ == {i \in 1..Len(s) : CaptureStart(s, label, i) # 0}
    IN  IF occ = {} THEN NULL
        ELSE LET i == CHOOSE x \in occ : \A y \in occ : x <= y
                 p == CaptureStart(s, label, i)
             IN  SubSeq(s, p, LineEnd(s, p))

L_PASS == <<"P", "A", "S", "S">>
L_REASON == <<"R", "E", "A", "S", "O", "N", ":">>
L_SUGGESTION == <<"S", "U", "G", "G", "E", "S", "T", "I", "O", "N", ":">>
L_none == <<"n", "o", "n", "e">>

\* ParseVerdict with PASS accepted anywhere in the output.
ParseVerdict_PassAnywhere(result) ==
    LET reasonMatch == MatchLabel(result, L_REASON)
        suggestionMatch == MatchLabel(result, L_SUGGESTION)
    IN  [pass |-> \E i \in 1..Len(result) :
                     startsWith(toLowerCase(sliceFrom(result, i - 1)), toLowerCase(L_PASS)),
         reason |-> IF reasonMatch # NULL THEN trim(reasonMatch) ELSE <<>>,
         suggestion |-> IF suggestionMatch # NULL THEN trim(suggestionMatch) ELSE <<>>]

\* verify, after the completion service returned `result`: the verdict
\* { pass, reason, suggestion }.
ParseVerdict(result) ==
    LET reasonMatch == MatchLabel(result, L_REASON)
        suggestionMatch == MatchLabel(result, L_SUGGESTION)
    IN  [pass |-> startsWith(toLowerCase(trim(result)), toLowerCase(L_PASS)),
         reason |-> IF reasonMatch # NULL THEN trim(reasonMatch) ELSE <<>>,
         suggestion |-> IF suggestionMatch # NULL THEN trim(suggestionMatch) ELSE <<>>]

\* The subject's name: config.get('userName') || 'Avin'.
userName == <<"A", "v", "i", "n">>

\* if (cleaned.toLowerCase().startsWith(label.toLowerCase()))
\*     cleaned = cleaned.slice(label.length).trim()
DropLabel(cleaned, label) ==
    IF startsWith(toLowerCase(cleaned), toLowerCase(label))
    THEN trim(sliceFrom(cleaned, Len(label))) ELSE cleaned

\* write / rewrite / generateReply, after the completion service returned
\* `reply`: strip one leading and one trailing quote, trim, then drop a leading
\* "Name:" and a leading "[Name]:" (case-insensitive), trimming after each.
\* Each intermediate text is bound once, as the code's `cleaned` variable is.
CleanReply(reply) ==
    LET prefix == userName \o <<":">>
        bracketPrefix == <<"[">> \o userName \o <<"]", ":">>
    IN  CHOOSE cleaned \in
            {DropLabel(c1, bracketPrefix) :
                c1 \in {DropLabel(c0, prefix) : c0 \in {trim(StripQuotes(reply))}}} : TRUE

\* EffectiveUpper with the ceiling applied only to a smaller statistical upper.
EffectiveUpper_AtLeast(isEmergency, s) ==
    IF isEmergency /\ s.upper < 15 THEN 15 ELSE s.upper

\* const effectiveUpper = isEmergency ? 15 : s.upper  (decide, write, verify,
\* rewrite all compute it this way).
EffectiveUpper(isEmergency, s) == IF isEmergency THEN 15 ELSE s.upper

\* userExamples.split(',').slice(0, 3).join(','): the text before the third
\* comma.
FirstThreePieces(t) ==
    LET commas == {i \in 1..Len(t) : t[i] = ","}
        third == {i \in commas : Cardinality({j \in commas : j < i}) = 2}
    IN  IF third = {} THEN t
        ELSE SubSeq(t, 1, (CHOOSE i \in third : TRUE) - 1)

\* GrossLengthViolation with either test sufficient.
GrossLengthViolation_Either(replyWordCount, effectiveUpper) ==
    replyWordCount > effectiveUpper * 2 \/ replyWordCount > 12

\* verify's hard fail: only if WAY beyond the upper bound.
GrossLengthViolation(replyWordCount, effectiveUpper) ==
    replyWordCount > effectiveUpper * 2 /\ replyWordCount > 12

\* The verdict verify builds itself on a gross length violation, without calling
\* the completion service.
LocalLengthVerdict(reply, s, isEmergency, userExamples) ==
    LET effectiveUpper == EffectiveUpper(isEmergency, s)
    IN  [pass |-> FALSE,
         reason |-> <<"R", "e", "p", "l", "y", " ", "i", "s", " ">>
                    \o Digits(WordCount(reply))
                    \o <<" ", "w", "o", "r", "d", "s", " ", "-", " ", "w", "a", "y", " ",
                         "b", "e", "y", "o", "n", "d", " ", "t", "h", "e", " ">>
                    \o Digits(effectiveUpper)
                    \o <<"-", "w", "o", "r", "d", " ", "u", "p", "p", "e", "r", " ",
                         "l", "i", "m", "i", "t", " ", "f", "o", "r", " ", "t", "h", "i",
                         "s", " ", "c", "o", "n", "t", "e", "x", "t", ".">>,
         suggestion |-> <<"S", "h", "o", "r", "t", "e", "n", " ", "t", "o", " ", "a", "r",
                          "o", "u", "n", "d", " ">>
                        \o Digits(s.avg) \o <<"-">> \o Digits(effectiveUpper)
                        \o <<" ", "w", "o", "r", "d", "s", ".", " ", "U", "s", "e", " ",
                             "f", "r", "a", "g", "m", "e", "n", "t", "s", " ", "l", "i",
                             "k", "e", ":", " ">>
                        \o FirstThreePieces(userExamples)]

\* Think's confidence tag: /confidence:\s*LOW/i.test(thinkOutput).
IsLowConfidence(thinkOutput) ==
    LET label == <<"c", "o", "n", "f", "i", "d", "e", "n", "c", "e", ":">>
        low == <<"l", "o", "w">>
        t == toLowerCase(thinkOutput)
    IN  \E i \in 1..Len(t) :
            /\ i + Len(label) - 1 <= Len(t)
            /\ SubSeq(t, i, i + Len(label) - 1) = label
            /\ \E p \in (i + Len(label))..Len(t) :
                   /\ \A k \in (i + Len(label))..(p - 1) : IsSpace(t[k])
                   /\ startsWith(sliceFrom(t, p - 1), low)

MAX_RETRIES == 2

\* let lastVerdict = null
NO_VERDICT == [isNull |-> TRUE]

\* SuggestionUsable without the comparison with 'none'.
SuggestionUsable_NoneAccepted(lastVerdict) ==
    /\ lastVerdict # NO_VERDICT
    /\ lastVerdict.suggestion # <<>>
    /\ Len(lastVerdict.suggestion) < 100

\* thinkAndReply, after the loop: the last verdict's suggestion is adopted iff
\* it is truthy, not 'none', and shorter than 100 characters.
SuggestionUsable(lastVerdict) ==
    /\ lastVerdict # NO_VERDICT
    /\ lastVerdict.suggestion # <<>>
    /\ lastVerdict.suggestion # L_none
    /\ Len(lastVerdict.suggestion) > 0
    /\ Len(lastVerdict.suggestion) < 100

\* FallbackSuggestion without the quote stripping.
FallbackSuggestion_Unstripped(lastVerdict) == trim(lastVerdict.suggestion)

\* let suggestion = lastVerdict.suggestion.replace(/^["']|["']$/g, '').trim()
FallbackSuggestion(lastVerdict) == trim(StripQuotes(lastVerdict.suggestion))

\* LoopCondition of a loop that relies on its returns alone.
LoopCondition_Always(attempt) == attempt >= 0

\* for (...; attempt <= MAX_RETRIES; ...)
LoopCondition(attempt) == attempt <= MAX_RETRIES

\* HasRetriesLeft with the comparison off by one.
HasRetriesLeft_Inclusive(attempt) == attempt <= MAX_RETRIES

\* if (attempt < MAX_RETRIES) reply = await rewrite(...)
HasRetriesLeft(attempt) == attempt < MAX_RETRIES

\* ---------------------------------------------------------------------------
\* Inputs: what the collaborators (history store, completion service) deliver
\* ---------------------------------------------------------------------------

\* Number of debounced batches handled in one behaviour.
MaxRuns == 1

\* The context thinkAndReply derives before Think: getWordCountStats and
\* extractUserExamples of the conversation flow.  An empty history gives the
\* defaults and no examples; the history "huss" / "eh la" / "k xa bro" (1, 2
\* and 3 words, none of them filler) gives avg 2, p75 3, upper max(5, 3, 5).
EmptyHistoryContext ==
    [wordStats |-> [min |-> 1, avg |-> 3, max |-> 8, p75 |-> 5, upper |-> 8],
     userExamples |-> <<>>]
ShortHistoryContext ==
    [wordStats |-> [min |-> 1, avg |-> 2, max |-> 3, p75 |-> 3, upper |-> 5],
     userExamples |-> <<"\"", "h", "u", "s", "s", "\"", ",", " ", "\"", "e", "h", " ",
                        "l", "a", "\"", ",", " ", "\"", "k", " ", "x", "a", " ", "b",
                        "r", "o", "\"">>]
ContextInputs == {EmptyHistoryContext, ShortHistoryContext}

\* Outputs of the completion service for Think.
ThinkOutputs ==
    {<<"C", "o", "n", "f", "i", "d", "e", "n", "c", "e", ":", " ", "H", "I", "G", "H">>,
     <<"c", "o", "n", "f", "i", "d", "e", "n", "c", "e", ":", " ", " ", "l", "o", "w">>}

\* Outputs of the completion service for Write, Rewrite and the basic reply: a
\* two-word text in quotes, the same text after the speaker label, and a
\* 17-word text.
RawReplies ==
    {<<"\"", "o", "k", " ", "l", "a", "\"">>,
     <<"A", "v", "i", "n", ":", " ", "o", "k", " ", "l", "a">>,
     Words(17)}

JudgeFailHead ==
    <<"F", "A", "I", "L", "\n", "R", "E", "A", "S", "O", "N", ":", " ", "b", "a", "d",
      "\n", "S", "U", "G", "G", "E", "S", "T", "I", "O", "N", ":", " ">>

\* Outputs of the completion service for Verify: a pass, a fail whose suggestion
\* is none, a fail whose suggestion is 99 characters long with its quotes, a
\* fail whose suggestion is 100 characters long, and a fail with no labelled
\* line.
JudgeOutputs ==
    {<<"P", "A", "S", "S", "\n", "R", "E", "A", "S", "O", "N", ":", " ", "f", "i", "n",
       "e", "\n", "S", "U", "G", "G", "E", "S", "T", "I", "O", "N", ":", " ", "n", "o",
       "n", "e">>,
     JudgeFailHead \o L_none,
     JudgeFailHead \o <<"\"">> \o Rep("a", 97) \o <<"\"">>,
     JudgeFailHead \o Rep("a", 100),
     <<"F", "A", "I", "L">>}

\* What write / rewrite / generateReply return for those outputs.
CleanedReplies == {CleanReply(raw) : raw \in RawReplies}

\* What verify returns for those outputs.
JudgeVerdicts == {ParseVerdict(result) : result \in JudgeOutputs}

\* ---------------------------------------------------------------------------
\* State
\* ---------------------------------------------------------------------------

VARIABLES
    pc,           \* where the handler of the current batch is suspended
    runs,         \* batches started so far
    ctx,          \* wordStats / userExamples of this invocation
    isEmergency,  \* detectEmergency(incomingMessage)
    reply,        \* thinkAndReply's `reply`: the current candidate
    attempt,      \* the loop counter of the verify/rewrite loop
    lastVerdict,  \* thinkAndReply's `lastVerdict`
    lines,        \* ChainLogger.lines: the steps logged so far
    logFile,      \* the content of the chain-log file on disk
    ret,          \* how thinkAndReply completed: pending, returned value, raised
    trace,        \* the stage calls made by this invocation, with their results
    callerReply,  \* sendDebouncedReply's `reply`
    sent,         \* client.sendMessage calls made for this batch
    stored,       \* outgoing messages stored by vectordb.storeMessage for this batch
    handlerError  \* the timer callback's catch logged "Auto-reply error"

\* A single call of one of the helper functions, outside any batch.
VARIABLES
    fn,           \* the helper applied, "none" before the call
    fnIn,         \* its arguments
    fnOut         \* its result, NULL before the call

\* The debouncing of incoming messages for one contact (auto-reply.js).
VARIABLES
    pendingReplies,  \* the contact's entry of the debounce map, or NO_ENTRY
    activeRuns,      \* the calls of sendDebouncedReply that have not completed
    db,              \* the messages stored by vectordb.storeMessage, in order
    created,         \* message_create events of own messages not yet handled
    quiet,           \* seconds since the last accepted message (at most DEBOUNCE_MS)
    arrived,         \* messages received or typed on the phone so far
    accepted,        \* the bodies queued for a reply, in the order queued
    started,         \* one record per call of sendDebouncedReply, in order
    timers,          \* the contact's debounce timers set and neither cleared nor fired
    autoReply        \* the contact is in config 'autoReplyContacts'

\* The scheduler of messages (scheduler.js).
VARIABLES
    scheduledMessages,  \* config 'scheduledMessages': the persisted entries
    activeJobs,         \* the Map activeJobs: one { job, entry } per id
    jobCounter,         \* the last id given
    now,                \* the clock
    schedulerUp,        \* the process runs and scheduler.init() was called
    delivered,          \* a bag: the id of each message a callback sent in this run of the process
    restored,           \* after the init() of a start: what it found; NOT_RESTORED otherwise
    liveJobs,           \* the jobs node-schedule holds: made, not cancelled, not run
    running,            \* the jobs whose callback awaits generateFromInstruction
    cancelled           \* the ids for which cancelJob returned true in this run of the process

\* Commands typed in the self-chat (alex.js).
VARIABLES
    pendingClarification,  \* the command waiting for a choice, or NO_PENDING
    handlers,              \* calls of handleAlexCommand / handleClarification not completed
    selfChat,              \* messages the handlers sent to the self-chat
    executed,              \* the calls of executeCommand, in order
    typed                  \* self-chat messages typed so far

vars == <<pc, runs, ctx, isEmergency, reply, attempt, lastVerdict, lines, logFile,
          ret, trace, callerReply, sent, stored, handlerError, fn, fnIn, fnOut,
          pendingReplies, activeRuns, db, created, quiet, arrived, accepted, started,
          timers, autoReply,
          scheduledMessages, activeJobs, jobCounter, now, schedulerUp, delivered,
          restored, liveJobs, running, cancelled,
          pendingClarification, handlers, selfChat, executed, typed>>

schedulerVars == <<scheduledMessages, activeJobs, jobCounter, now, schedulerUp,
                   delivered, restored, liveJobs, running, cancelled>>
alexVars == <<pendingClarification, handlers, selfChat, executed, typed>>

debounceVars == <<pendingReplies, activeRuns, db, created, quiet, arrived, accepted,
                  started, timers, autoReply>>

fnVars == <<fn, fnIn, fnOut>>
batchVars == <<pc, runs, ctx, isEmergency, reply, attempt, lastVerdict, lines, logFile,
               ret, trace, callerReply, sent, stored, handlerError>>

\* What the steps of a batch, of a helper call, of the debouncing, of the
\* scheduler and of the self-chat commands leave alone.
outsideBatch == <<fnVars, debounceVars, schedulerVars, alexVars>>
outsideFn == <<batchVars, debounceVars, schedulerVars, alexVars>>
outsideDebounce == <<batchVars, fnVars, schedulerVars, alexVars>>
outsideScheduler == <<batchVars, fnVars, debounceVars, alexVars>>
outsideAlex == <<batchVars, fnVars, debounceVars, schedulerVars>>

chainVars == <<ctx, isEmergency, reply, attempt, lastVerdict, lines, logFile, ret, trace>>
callerVars == <<callerReply, sent, stored, handlerError>>

PENDING == [kind |-> "pending", value |-> NULL]

\* No batch is being handled.
NoBatch ==
    /\ pc = "idle"
    /\ runs = 0
    /\ ctx = EmptyHistoryContext
    /\ isEmergency = FALSE
    /\ reply = NULL
    /\ attempt = 0
    /\ lastVerdict = NO_VERDICT
    /\ lines = <<>>
    /\ logFile = <<>>
    /\ ret = PENDING
    /\ trace = <<>>
    /\ callerReply = NULL
    /\ sent = <<>>
    /\ stored = <<>>
    /\ handlerError = FALSE

\* const pendingReplies = new Map(): no entry for the contact.
NO_ENTRY == [messages |-> <<>>, timeout |-> -1]

\* const DEBOUNCE_MS = 4000, and the same in the seconds the clock counts.
DEBOUNCE_MS == 4000
DebounceSeconds == DEBOUNCE_MS \div 1000

\* No message has come in and nothing is stored.
NoTraffic ==
    /\ pendingReplies = NO_ENTRY
    /\ activeRuns = <<>>
    /\ db = <<>>
    /\ created = <<>>
    /\ quiet = DebounceSeconds
    /\ arrived = 0
    /\ accepted = <<>>
    /\ started = <<>>
    /\ timers = 0
    /\ autoReply = FALSE

\* No helper function is being applied.
NoCall ==
    /\ fn = "none"
    /\ fnIn = NULL
    /\ fnOut = NULL

\* No restore has just been made.
NOT_RESTORED == [scheduledMessages |-> <<>>, delivered |-> EmptyBag, done |-> FALSE]

\* The process is not running; nothing is persisted.
SchedulerDown ==
    /\ scheduledMessages = <<>>
    /\ activeJobs = {}
    /\ jobCounter = 0
    /\ now = 0
    /\ schedulerUp = FALSE
    /\ delivered = EmptyBag
    /\ restored = NOT_RESTORED
    /\ liveJobs = {}
    /\ running = {}
    /\ cancelled = {}

\* let pendingClarification = null
NO_PENDING == [isNull |-> TRUE]

\* No command was typed.
AlexIdle ==
    /\ pendingClarification = NO_PENDING
    /\ handlers = <<>>
    /\ selfChat = <<>>
    /\ executed = <<>>
    /\ typed = 0

Init ==
    /\ NoBatch
    /\ NoCall
    /\ NoTraffic
    /\ SchedulerDown
    /\ AlexIdle

\* ChainLogger.logStep: one more block in logger.lines (nothing is written to
\* disk).
logStep(ls, stepName, status) == Append(ls, [step |-> stepName, status |-> status])

\* The text '(none)' of the footer.
NONE_TEXT == <<"(", "n", "o", "n", "e", ")">>

\* The footer's `Reply: ${reply || '(none)'}`: null and the empty text are
\* falsy.
FooterReply(r) == IF r = NULL \/ r = <<>> THEN NONE_TEXT ELSE r

\* ChainLogger.logFinal: the footer is appended and all lines are written to the
\* log file.  `reply` is the argument, `text` what the footer shows for it.
logFinal(ls, decision, r) ==
    Append(ls, [step |-> "Final", status |-> decision, reply |-> r,
                text |-> FooterReply(r)])

\* One entry of `trace`: a stage call, the candidate it was given, how it ended,
\* whether it called the completion service, and what it returned: the text of
\* write / rewrite / generateReply, or the suggestion of verify's verdict.
Call(stage, input, outcome, llm, output) ==
    [stage |-> stage, input |-> input, outcome |-> outcome, llm |-> llm,
     output |-> output]

\* Return with the return statement's value lost.
Return_Undefined(ls, decision, value) ==
    /\ lines' = logFinal(ls, decision, value)
    /\ logFile' = logFinal(ls, decision, value)
    /\ ret' = [kind |-> "returned", value |-> NULL]
    /\ callerReply' = NULL
    /\ pc' = "delay"

\* thinkAndReply returns `value` after logFinal(decision, value); the caller's
\* `reply = await chain.thinkAndReply(...)` receives it.
Return(ls, decision, value) ==
    /\ lines' = logFinal(ls, decision, value)
    /\ logFile' = logFinal(ls, decision, value)
    /\ ret' = [kind |-> "returned", value |-> value]
    /\ callerReply' = value
    /\ pc' = "delay"

\* thinkAndReply rejects; sendDebouncedReply's catch logs it and calls
\* agent.generateReply.
Raise ==
    /\ ret' = [kind |-> "raised", value |-> NULL]
    /\ pc' = "fallback"
    /\ UNCHANGED <<lines, logFile, callerReply>>

\* After the loop: use the verifier's last suggestion if available, else return
\* null.
AfterLoop(ls, lv) ==
    IF SuggestionUsable(lv)
    THEN Return(ls, "SENT_SUGGESTION", FallbackSuggestion(lv))
    ELSE Return(ls, "SKIPPED", NULL)

\* The end of one loop iteration: attempt++, then the loop test.
NextIteration(ls, lv) ==
    /\ attempt' = attempt + 1
    /\ IF LoopCondition(attempt + 1)
       THEN /\ pc' = "verify"
            /\ lines' = ls
            /\ UNCHANGED <<logFile, ret, callerReply>>
       ELSE AfterLoop(ls, lv)

\* CatchBlock that logs the error and throws it again.
CatchBlock_Rethrow ==
    /\ Raise
    /\ UNCHANGED <<attempt, lastVerdict, reply>>

\* The catch block of the loop body: log the error as a failed Verify step and
\* return the current reply as SENT.
CatchBlock ==
    /\ Return(logStep(lines, "Verify", "fail"), "SENT", reply)
    /\ UNCHANGED <<attempt, lastVerdict, reply>>

\* ---------------------------------------------------------------------------
\* Actions: thinkAndReply
\* ---------------------------------------------------------------------------

\* A debounced batch arrives: sendDebouncedReply calls thinkAndReply, which
\* builds its logger and context and calls think.
Start ==
    /\ pc = "idle"
    /\ runs < MaxRuns
    /\ runs' = runs + 1
    /\ \E c \in ContextInputs, e \in BOOLEAN :
          /\ ctx' = c
          /\ isEmergency' = e
    /\ reply' = NULL
    /\ attempt' = 0
    /\ lastVerdict' = NO_VERDICT
    /\ lines' = logStep(<<[step |-> "Header", status |-> ""]>>, "Think", "")
    /\ logFile' = <<>>
    /\ ret' = PENDING
    /\ trace' = <<>>
    /\ callerReply' = NULL
    /\ sent' = <<>>
    /\ stored' = <<>>
    /\ handlerError' = FALSE
    /\ pc' = "think"
    /\ UNCHANGED outsideBatch

\* vectordb.getRecentMessages rejects: thinkAndReply has no handler for it.
StartHistoryFails ==
    /\ pc = "idle"
    /\ runs < MaxRuns
    /\ runs' = runs + 1
    /\ ctx' = EmptyHistoryContext
    /\ isEmergency' = FALSE
    /\ reply' = NULL
    /\ attempt' = 0
    /\ lastVerdict' = NO_VERDICT
    /\ lines' = <<[step |-> "Header", status |-> ""]>>
    /\ logFile' = <<>>
    /\ ret' = [kind |-> "raised", value |-> NULL]
    /\ trace' = <<Call("Context", NULL, "THROW", FALSE, NULL)>>
    /\ callerReply' = NULL
    /\ sent' = <<>>
    /\ stored' = <<>>
    /\ handlerError' = FALSE
    /\ pc' = "fallback"
    /\ UNCHANGED outsideBatch

\* Think with a LOW confidence ending the invocation.
Think_LowAborts ==
    /\ pc = "think"
    /\ \E thinkOutput \in ThinkOutputs :
          /\ trace' = Append(trace, Call("Think", NULL, "OK", TRUE, thinkOutput))
          /\ IF IsLowConfidence(thinkOutput)
             THEN Return(logStep(lines, "Think", "fail"), "SKIPPED", NULL)
             ELSE /\ lines' = logStep(lines, "Think", "pass")
                  /\ pc' = "decide"
                  /\ UNCHANGED <<logFile, ret, callerReply>>
    /\ UNCHANGED <<runs, ctx, isEmergency, reply, attempt, lastVerdict>>
    /\ UNCHANGED <<sent, stored, handlerError>>
    /\ UNCHANGED outsideBatch

Think ==
    /\ pc = "think"
    /\ \E thinkOutput \in ThinkOutputs :
          /\ lines' = logStep(lines, "Think",
                              IF IsLowConfidence(thinkOutput) THEN "fail" ELSE "pass")
          /\ trace' = Append(trace, Call("Think", NULL, "OK", TRUE, thinkOutput))
    /\ pc' = "decide"
    /\ UNCHANGED <<runs, ctx, isEmergency, reply, attempt, lastVerdict, logFile, ret>>
    /\ UNCHANGED callerVars
    /\ UNCHANGED outsideBatch

\* Decide with the draft left out: verify is called next.
Decide_SkipsWrite ==
    /\ pc = "decide"
    /\ lines' = logStep(lines, "Decide", "pass")
    /\ trace' = Append(trace, Call("Decide", NULL, "OK", TRUE, NULL))
    /\ reply' = <<"o", "k">>
    /\ pc' = "verify"
    /\ UNCHANGED <<runs, ctx, isEmergency, attempt, lastVerdict, logFile, ret>>
    /\ UNCHANGED callerVars
    /\ UNCHANGED outsideBatch

Decide ==
    /\ pc = "decide"
    /\ lines' = logStep(lines, "Decide", "pass")
    /\ trace' = Append(trace, Call("Decide", NULL, "OK", TRUE, NULL))
    /\ pc' = "write"
    /\ UNCHANGED <<runs, ctx, isEmergency, reply, attempt, lastVerdict, logFile, ret>>
    /\ UNCHANGED callerVars
    /\ UNCHANGED outsideBatch

Write ==
    /\ pc = "write"
    /\ \E cleaned \in CleanedReplies :
          /\ reply' = cleaned
          /\ trace' = Append(trace, Call("Write", NULL, "OK", TRUE, cleaned))
    /\ lines' = logStep(lines, "Write", "pass")
    /\ pc' = "verify"
    /\ UNCHANGED <<runs, ctx, isEmergency, attempt, lastVerdict, logFile, ret>>
    /\ UNCHANGED callerVars
    /\ UNCHANGED outsideBatch

\* StageThrows with the stage calls wrapped in the loop's catch block.
StageThrows_FailOpen ==
    /\ pc \in {"think", "decide", "write"}
    /\ trace' = Append(trace,
                       Call(CASE pc = "think" -> "Think"
                              [] pc = "decide" -> "Decide"
                              [] pc = "write" -> "Write",
                            NULL, "THROW", TRUE, NULL))
    /\ Return(logStep(lines, "Verify", "fail"), "SENT", reply)
    /\ UNCHANGED <<runs, ctx, isEmergency, reply, attempt, lastVerdict>>
    /\ UNCHANGED <<sent, stored, handlerError>>
    /\ UNCHANGED outsideBatch

\* The completion service throws in think, decide or write: nothing in
\* thinkAndReply catches it.
StageThrows ==
    /\ pc \in {"think", "decide", "write"}
    /\ trace' = Append(trace,
                       Call(CASE pc = "think" -> "Think"
                              [] pc = "decide" -> "Decide"
                              [] pc = "write" -> "Write",
                            NULL, "THROW", TRUE, NULL))
    /\ Raise
    /\ UNCHANGED <<runs, ctx, isEmergency, reply, attempt, lastVerdict>>
    /\ UNCHANGED <<sent, stored, handlerError>>
    /\ UNCHANGED outsideBatch

\* verify(reply) returns a verdict: its own on a gross length violation, else
\* the parsed output of the completion service.  The loop body then returns on
\* a pass, calls rewrite if retries are left, and otherwise ends the iteration.
Verify ==
    /\ pc = "verify"
    /\ LET local == GrossLengthViolation(WordCount(reply),
                                         EffectiveUpper(isEmergency, ctx.wordStats))
           verdicts == IF local
                       THEN {LocalLengthVerdict(reply, ctx.wordStats, isEmergency,
                                                ctx.userExamples)}
                       ELSE JudgeVerdicts
       IN  \E verdict \in verdicts :
              /\ lastVerdict' = verdict
              /\ trace' = Append(trace,
                                 Call("Verify", reply,
                                      IF verdict.pass THEN "PASS" ELSE "FAIL",
                                      ~local, verdict.suggestion))
              /\ LET ls == logStep(lines, "Verify",
                                   IF verdict.pass THEN "pass" ELSE "fail")
                 IN  IF verdict.pass
                     THEN Return(ls, "SENT", reply) /\ UNCHANGED attempt
                     ELSE IF HasRetriesLeft(attempt)
                     THEN /\ pc' = "rewrite"
                          /\ lines' = ls
                          /\ UNCHANGED <<attempt, logFile, ret, callerReply>>
                     ELSE NextIteration(ls, verdict)
    /\ UNCHANGED <<runs, ctx, isEmergency, reply, sent, stored, handlerError>>
    /\ UNCHANGED outsideBatch

\* The completion-service call of verify throws (it is made only when the local
\* length check did not fail).
VerifyThrows ==
    /\ pc = "verify"
    /\ ~GrossLengthViolation(WordCount(reply), EffectiveUpper(isEmergency, ctx.wordStats))
    /\ trace' = Append(trace, Call("Verify", reply, "THROW", TRUE, NULL))
    /\ CatchBlock
    /\ UNCHANGED <<runs, ctx, isEmergency, sent, stored, handlerError>>
    /\ UNCHANGED outsideBatch

\* rewrite returns the cleaned output of the completion service; the iteration
\* ends.
Rewrite ==
    /\ pc = "rewrite"
    /\ \E cleaned \in CleanedReplies :
          /\ reply' = cleaned
          /\ trace' = Append(trace, Call("Rewrite", reply, "OK", TRUE, cleaned))
    /\ NextIteration(logStep(lines, "Rewrite", "pass"), lastVerdict)
    /\ UNCHANGED <<runs, ctx, isEmergency, lastVerdict, sent, stored, handlerError>>
    /\ UNCHANGED outsideBatch

\* The completion-service call of rewrite throws: the call is inside the same
\* try block as verify.
RewriteThrows ==
    /\ pc = "rewrite"
    /\ trace' = Append(trace, Call("Rewrite", reply, "THROW", TRUE, NULL))
    /\ CatchBlock
    /\ UNCHANGED <<runs, ctx, isEmergency, sent, stored, handlerError>>
    /\ UNCHANGED outsideBatch

\* ---------------------------------------------------------------------------
\* Actions: sendDebouncedReply after thinkAndReply completed
\* ---------------------------------------------------------------------------

\* The handler ends with its error logged by the timer callback.
HandlerFails ==
    /\ pc' = "idle"
    /\ handlerError' = TRUE

\* catch (err): reply = await agent.generateReply(...), the basic reply.
Fallback ==
    /\ pc = "fallback"
    /\ \E cleaned \in CleanedReplies :
          /\ callerReply' = cleaned
          /\ trace' = Append(trace, Call("generateReply", NULL, "OK", TRUE, cleaned))
    /\ pc' = "delay"
    /\ UNCHANGED <<runs, ctx, isEmergency, reply, attempt, lastVerdict, lines, logFile, ret>>
    /\ UNCHANGED <<sent, stored, handlerError>>
    /\ UNCHANGED outsideBatch

\* agent.generateReply rejects (history store or completion service).
FallbackThrows ==
    /\ pc = "fallback"
    /\ trace' = Append(trace, Call("generateReply", NULL, "THROW", TRUE, NULL))
    /\ HandlerFails
    /\ UNCHANGED <<runs, ctx, isEmergency, reply, attempt, lastVerdict, lines, logFile, ret>>
    /\ UNCHANGED <<callerReply, sent, stored>>
    /\ UNCHANGED outsideBatch

\* getSmartDelay returned a delay: sleep(smartDelay).
DelaySmart ==
    /\ pc = "delay"
    /\ pc' = "send"
    /\ UNCHANGED <<runs, trace, callerReply, sent, stored, handlerError>>
    /\ UNCHANGED <<ctx, isEmergency, reply, attempt, lastVerdict, lines, logFile, ret>>
    /\ UNCHANGED outsideBatch

\* getSmartDelay returned null: typeDelay = reply.length * 40 throws a TypeError
\* when reply is null.
DelayDefault ==
    /\ pc = "delay"
    /\ IF callerReply = NULL
       THEN HandlerFails
       ELSE pc' = "send" /\ UNCHANGED handlerError
    /\ UNCHANGED <<runs, trace, callerReply, sent, stored>>
    /\ UNCHANGED <<ctx, isEmergency, reply, attempt, lastVerdict, lines, logFile, ret>>
    /\ UNCHANGED outsideBatch

\* await client.sendMessage(contactId, reply)
Send ==
    /\ pc = "send"
    /\ sent' = Append(sent, callerReply)
    /\ pc' = "store"
    /\ UNCHANGED <<runs, trace, callerReply, stored, handlerError>>
    /\ UNCHANGED <<ctx, isEmergency, reply, attempt, lastVerdict, lines, logFile, ret>>
    /\ UNCHANGED outsideBatch

\* client.sendMessage rejects.
SendThrows ==
    /\ pc = "send"
    /\ HandlerFails
    /\ UNCHANGED <<runs, trace, callerReply, sent, stored>>
    /\ UNCHANGED <<ctx, isEmergency, reply, attempt, lastVerdict, lines, logFile, ret>>
    /\ UNCHANGED outsideBatch

\* await vectordb.storeMessage({ id: `auto_...`, body: reply, fromMe: true })
Store ==
    /\ pc = "store"
    /\ stored' = Append(stored, [id |-> "auto_", body |-> callerReply, fromMe |-> TRUE])
    /\ pc' = "idle"
    /\ UNCHANGED <<runs, trace, callerReply, sent, handlerError>>
    /\ UNCHANGED <<ctx, isEmergency, reply, attempt, lastVerdict, lines, logFile, ret>>
    /\ UNCHANGED outsideBatch

\* vectordb.storeMessage rejects.
StoreThrows ==
    /\ pc = "store"
    /\ HandlerFails
    /\ UNCHANGED <<runs, trace, callerReply, sent, stored>>
    /\ UNCHANGED <<ctx, isEmergency, reply, attempt, lastVerdict, lines, logFile, ret>>
    /\ UNCHANGED outsideBatch

\* The steps of thinkAndReply: each is the completion of one awaited call.
ChainStep ==
    \/ Think
    \/ Decide
    \/ Write
    \/ StageThrows
    \/ Verify
    \/ VerifyThrows
    \/ Rewrite
    \/ RewriteThrows

Next ==
    \/ Start
    \/ StartHistoryFails
    \/ Think
    \/ Decide
    \/ Write
    \/ StageThrows
    \/ Verify
    \/ VerifyThrows
    \/ Rewrite
    \/ RewriteThrows
    \/ Fallback
    \/ FallbackThrows
    \/ DelaySmart
    \/ DelayDefault
    \/ Send
    \/ SendThrows
    \/ Store
    \/ StoreThrows

Spec == Init /\ [][Next]_vars

\* Every awaited call of a started invocation eventually returns or throws.
FairSpec == Spec /\ WF_vars(ChainStep)

\* ---------------------------------------------------------------------------
\* The conversation flow and what is derived from it
\* ---------------------------------------------------------------------------

\* pieces.join(sep)
RECURSIVE Join(_, _)
Join(pieces, sep) ==
    IF pieces = <<>> THEN <<>>
    ELSE IF Len(pieces) = 1 THEN pieces[1]
    ELSE pieces[1] \o sep \o Join(Tail(pieces), sep)

\* t.split(c) for a one-character separator c: the texts between its
\* occurrences, empty ones included.
SplitOn(t, c) ==
    LET cuts == {i \in 1..Len(t) : t[i] = c}
        n == Cardinality(cuts)
        Cut(k) == IF k = 0 THEN 0
                  ELSE IF k = n + 1 THEN Len(t) + 1
                  ELSE CHOOSE i \in cuts : Cardinality({j \in cuts : j < i}) = k - 1
    IN  [k \in 1..(n + 1) |-> SubSeq(t, Cut(k - 1) + 1, Cut(k) - 1)]

\* The counterpart's display name.
contactName == <<"R", "a", "m">>

\* new Date(m.timestamp * 1000).toLocaleTimeString([], { hour: '2-digit',
\* minute: '2-digit' }) for the one non-zero timestamp used here.
TimeText == <<"1", "0", ":", "3", "0", " ", "P", "M">>

AUTO_PREFIX == <<"a", "u", "t", "o", "_">>
WEB_PREFIX == <<"w", "e", "b", "_">>
AI_TAG == <<" ", "[", "A", "I", "-", "G", "E", "N", "E", "R", "A", "T", "E", "D", "]">>

\* One line of the conversation flow for a stored message: [sender], the time
\* in parentheses if there is a timestamp, the tag of an auto-generated
\* message, a colon and the body.
FormatLine(m) ==
    LET sender == IF m.fromMe THEN userName ELSE contactName
        time == IF m.timestamp # 0 THEN TimeText ELSE <<>>
        isAutoGenerated == /\ m.fromMe
                           /\ m.id # <<>>
                           /\ (startsWith(m.id, AUTO_PREFIX) \/ startsWith(m.id, WEB_PREFIX))
        autoTag == IF isAutoGenerated THEN AI_TAG ELSE <<>>
    IN  <<"[">> \o sender \o <<"]">>
        \o (IF time # <<>> THEN <<" ", "(">> \o time \o <<")">> ELSE <<>>)
        \o autoTag \o <<":", " ">> \o m.body

\* thinkAndReply's conversationFlow for the messages read from the history.
ConversationFlow(recentMessages) ==
    IF Len(recentMessages) > 0
    THEN Join([i \in 1..Len(recentMessages) |-> FormatLine(recentMessages[i])], <<"\n">>)
    ELSE <<>>

\* The least element of a non-empty set of integers.
MinOf(S) == CHOOSE x \in S : \A y \in S : x <= y

\* The first index from `from` on at which line has the character c, or 0.
FirstChar(line, from, c) ==
    LET at == {i \in from..Len(line) : line[i] = c}
    IN  IF at = {} THEN 0 ELSE MinOf(at)

\* The first index from `from` on at which line has no whitespace, or 0.
FirstNonSpace(line, from) ==
    LET at == {i \in from..Len(line) : ~IsSpace(line[i])}
    IN  IF at = {} THEN 0 ELSE MinOf(at)

\* /^\[[^\]]+\]/: the index of the closing bracket, or 0 if there is no match.
SenderEnd(line) ==
    IF Len(line) >= 3 /\ line[1] = "[" /\ line[2] # "]" THEN FirstChar(line, 3, "]") ELSE 0

\* (?:\s*\([^)]*\)) tried after index q: the index of its closing parenthesis,
\* or 0 if it does not match there.
TimeEnd(line, q) ==
    CHOOSE r \in {IF s # 0 /\ line[s] = "(" THEN FirstChar(line, s + 1, ")") ELSE 0 :
                     s \in {FirstNonSpace(line, q + 1)}} : TRUE

\* The index of the colon that follows the sender and the optional time: the
\* group is tried first and given up if no colon follows it.
ColonAfter(line, q) ==
    CHOOSE colon \in
        {IF r # 0 /\ r + 1 <= Len(line) /\ line[r + 1] = ":" THEN r + 1
         ELSE IF q + 1 <= Len(line) /\ line[q + 1] = ":" THEN q + 1
         ELSE 0 : r \in {TimeEnd(line, q)}} : TRUE

\* :\s* with the colon at index colon: the index of the last character matched.
SpacesEnd(line, colon) ==
    CHOOSE end \in {IF rest = 0 THEN Len(line) ELSE rest - 1 :
                       rest \in {FirstNonSpace(line, colon + 1)}} : TRUE

\* The index of the last character of the match of
\* /^\[[^\]]+\](?:\s*\([^)]*\))?:\s*/ in line, or 0 if there is no match.
\* (Each intermediate result is bound once, here and below, as a const is.)
HeadEnd(line) ==
    CHOOSE end \in
        {IF colon = 0 THEN 0 ELSE SpacesEnd(line, colon) :
            colon \in {IF q = 0 THEN 0 ELSE ColonAfter(line, q) :
                          q \in {SenderEnd(line)}}} : TRUE

\* line.replace(/^\[[^\]]+\](?:\s*\([^)]*\))?:\s*/, '').trim()
LineBody(line) ==
    CHOOSE body \in {trim(rest) : rest \in {sliceFrom(line, HeadEnd(line))}} : TRUE

FILE_ == <<"[", "F", "i", "l", "e", ":">>
HTTP_ == <<"h", "t", "t", "p">>

\* The bodies, in order, of the lines that pass the tests of the loop.
KeepUsable(flowLines, bodies) ==
    LET head == <<"[">> \o userName \o <<"]">>
        kept == {i \in 1..Len(flowLines) :
                    /\ startsWith(flowLines[i], head)
                    /\ bodies[i] # <<>>
                    /\ ~startsWith(bodies[i], FILE_)
                    /\ ~startsWith(bodies[i], HTTP_)}
    IN  [k \in 1..Cardinality(kept) |->
            bodies[CHOOSE i \in kept : Cardinality({j \in kept : j < i}) = k - 1]]

\* The loop over the lines of the flow, the same in extractUserExamples and
\* getWordCountStats: the bodies of the lines that start with [userName], are
\* not empty and do not start with '[File:' or 'http'.
UsableBodies(conversationFlow) ==
    CHOOSE userMsgs \in UNION
        {{KeepUsable(flowLines, bodies) :
             bodies \in {[i \in 1..Len(flowLines) |-> LineBody(flowLines[i])]}} :
            flowLines \in {SplitOn(conversationFlow, "\n")}} : TRUE

AUTO_REPLY_FILLER ==
    {<<"k", "h", "a", "i">>,
     <<"h", "m", "m">>,
     <<"o", "k", "e", "y">>,
     <<"o", "k">>,
     <<"h", "a", "h", "a">>,
     <<"l", "o", "l">>,
     <<"o", "h", "h">>,
     <<"a", "h", "h">>,
     <<"h", "m">>,
     <<"y", "e", "s">>,
     <<"n", "o">>,
     <<"y", "e", "p">>,
     <<"n", "a", "h">>,
     <<"s", "u", "r", "e">>,
     <<"n", "i", "c", "e">>,
     <<"w", "o", "w">>,
     <<"d", "a", "m", "n">>}

\* words[0] of t.split(/\s+/) for a trimmed text t.
FirstWord(t) ==
    LET sp == {i \in 1..Len(t) : IsSpace(t[i])}
    IN  IF sp = {} THEN t ELSE SubSeq(t, 1, MinOf(sp) - 1)

\* isLikelyAutoFiller with the whole message looked up in the set.
isLikelyAutoFiller_WholeBody(body) ==
    IF body = <<>> THEN FALSE
    ELSE toLowerCase(trim(body)) \in AUTO_REPLY_FILLER

isLikelyAutoFiller(body) ==
    IF body = <<>> THEN FALSE
    ELSE IF WordCount(trim(body)) > 2 THEN FALSE
    ELSE toLowerCase(FirstWord(trim(body))) \in AUTO_REPLY_FILLER

\* arr.filter(m => !isLikelyAutoFiller(m))
RealOnly(bodies) == SelectSeq(bodies, LAMBDA b : ~isLikelyAutoFiller(b))

\* PreferReal with the non-filler sample never preferred.
PreferReal_AlwaysAll(real, all) == all

\* real.length >= 3 ? real : all
PreferReal(real, all) == IF Len(real) >= 3 THEN real ELSE all

\* getWordCountStats: the `lengths` array before it is sorted (empty when the
\* flow is empty or has no usable line).
SampleLengths(conversationFlow) ==
    IF conversationFlow = <<>> THEN <<>>
    ELSE CHOOSE lengths \in
             {PreferReal([i \in 1..Len(RealOnly(bodies)) |-> WordCount(RealOnly(bodies)[i])],
                         [i \in 1..Len(bodies) |-> WordCount(bodies[i])]) :
                 bodies \in {UsableBodies(conversationFlow)}} : TRUE

\* lengths.sort((a, b) => a - b)
RECURSIVE SortAscending(_)
SortAscending(lengths) ==
    IF lengths = <<>> THEN <<>>
    ELSE LET least == MinOf({lengths[i] : i \in 1..Len(lengths)})
             at == MinOf({i \in 1..Len(lengths) : lengths[i] = least})
         IN  <<least>> \o SortAscending(SubSeq(lengths, 1, at - 1)
                                        \o SubSeq(lengths, at + 1, Len(lengths)))

RECURSIVE Sum(_)
Sum(lengths) == IF lengths = <<>> THEN 0 ELSE Head(lengths) + Sum(Tail(lengths))

\* Math.round(total / n) for a non-negative total.
RoundedMean(total, n) == (2 * total + n) \div (2 * n)

\* P75Index at the middle of the sample.
P75Index_Median(n) == n \div 2

\* Math.floor(n * 0.75)
P75Index(n) == (3 * n) \div 4

\* Math.max(avg + 3, p75, 5)
UpperOf(avg, p75) ==
    LET S == {avg + 3, p75, 5} IN CHOOSE x \in S : \A y \in S : y <= x

\* lengths[p75Index] || avg
P75Of(sorted, avg) ==
    IF sorted[P75Index(Len(sorted)) + 1] # 0 THEN sorted[P75Index(Len(sorted)) + 1] ELSE avg

\* getWordCountStats on a non-empty `lengths` array.
StatsOf(lengths) ==
    CHOOSE stats \in
        {[min |-> sorted[1],
          avg |-> RoundedMean(Sum(sorted), Len(sorted)),
          max |-> sorted[Len(sorted)],
          p75 |-> P75Of(sorted, RoundedMean(Sum(sorted), Len(sorted))),
          upper |-> UpperOf(RoundedMean(Sum(sorted), Len(sorted)),
                            P75Of(sorted, RoundedMean(Sum(sorted), Len(sorted))))] :
            sorted \in {SortAscending(lengths)}} : TRUE

getWordCountStats(conversationFlow) ==
    CHOOSE stats \in
        {IF lengths = <<>>
         THEN [min |-> 1, avg |-> 3, max |-> 8, p75 |-> 5, upper |-> 8]
         ELSE StatsOf(lengths) : lengths \in {SampleLengths(conversationFlow)}} : TRUE

\* pool.slice(-maxExamples)
LastN(pool, n) == IF Len(pool) <= n THEN pool ELSE SubSeq(pool, Len(pool) - n + 1, Len(pool))

maxExamples == 15

extractUserExamples(conversationFlow) ==
    IF conversationFlow = <<>> THEN <<>>
    ELSE CHOOSE examples \in
             {Join([i \in 1..Len(pool) |-> <<"\"">> \o pool[i] \o <<"\"">>], <<",", " ">>) :
                 pool \in {LastN(PreferReal(RealOnly(userMsgs), userMsgs), maxExamples) :
                              userMsgs \in {UsableBodies(conversationFlow)}}} : TRUE

\* ---------------------------------------------------------------------------
\* Helper functions applied on their own
\* ---------------------------------------------------------------------------

\* What the completion service can answer at the last attempt: the outputs
\* above and failing verdicts whose suggestion is the word none in double or
\* single quotes, a pair of quotes, or a lone quote.
LastJudgeOutputs ==
    JudgeOutputs \cup
    {JudgeFailHead \o <<"\"">> \o L_none \o <<"\"">>,
     JudgeFailHead \o <<"'">> \o L_none \o <<"'">>,
     JudgeFailHead \o <<"\"", "\"">>,
     JudgeFailHead \o <<"\"">>}

\* thinkAndReply after the loop, as a function of the last verdict: the outcome
\* logged and the value returned.
Resolution(lv) ==
    IF SuggestionUsable(lv)
    THEN [decision |-> "SENT_SUGGESTION", value |-> FallbackSuggestion(lv),
          footer |-> FooterReply(FallbackSuggestion(lv))]
    ELSE [decision |-> "SKIPPED", value |-> NULL, footer |-> FooterReply(NULL)]

ResolveInputs ==
    {[fn |-> "afterLoop", lastVerdict |-> lv] :
        lv \in {v \in {ParseVerdict(r) : r \in LastJudgeOutputs} : ~v.pass}}

\* Stored messages: one of the counterpart, and of the subject a one-word
\* message, a filler word, a three-word message with a timestamp, an
\* auto-generated filler word with a timestamp, and a 13-word message.
MsgContact == [fromMe |-> FALSE, id |-> <<"3", "E", "B", "0", "0">>, timestamp |-> 1, body |-> <<"k", "a", "h", "a", " ", "h", "o">>]
MsgHuss == [fromMe |-> TRUE, id |-> <<"3", "E", "B", "0", "1">>, timestamp |-> 0, body |-> <<"h", "u", "s", "s">>]
MsgOk == [fromMe |-> TRUE, id |-> <<"3", "E", "B", "0", "2">>, timestamp |-> 0, body |-> <<"o", "k">>]
MsgKXaBro == [fromMe |-> TRUE, id |-> <<"3", "E", "B", "0", "3">>, timestamp |-> 1, body |-> <<"k", " ", "x", "a", " ", "b", "r", "o">>]
MsgAuto == [fromMe |-> TRUE, id |-> <<"a", "u", "t", "o", "_", "1">>, timestamp |-> 1, body |-> <<"o", "k">>]
MsgLong == [fromMe |-> TRUE, id |-> <<"3", "E", "B", "0", "4">>, timestamp |-> 0, body |-> Words(13)]
Messages == {MsgContact, MsgHuss, MsgOk, MsgKXaBro, MsgAuto, MsgLong}

\* The longest history read in one call.
MaxHistory == 4

Histories == UNION {[1..n -> Messages] : n \in 0..MaxHistory}

\* thinkAndReply's derivation of the context of an invocation from the
\* messages read: the conversation flow, the word statistics, and the examples
\* each stage extracts from the flow.
DeriveContext(recentMessages) ==
    CHOOSE context \in
        {[conversationFlow |-> conversationFlow,
          wordStats |-> getWordCountStats(conversationFlow),
          userExamples |-> extractUserExamples(conversationFlow)] :
            conversationFlow \in {ConversationFlow(recentMessages)}} : TRUE

ContextCallInputs == {[fn |-> "context", recentMessages |-> h] : h \in Histories}

\* verify as a function of its arguments and of the completion service's
\* answer: the verdict, and whether the completion service was called.
VerifyOutcome(candidate, conversationFlow, wordStats, emergency, result) ==
    IF GrossLengthViolation(WordCount(candidate), EffectiveUpper(emergency, wordStats))
    THEN [verdict |-> LocalLengthVerdict(candidate, wordStats, emergency,
                                         extractUserExamples(conversationFlow)),
          llm |-> FALSE]
    ELSE [verdict |-> ParseVerdict(result), llm |-> TRUE]

\* Candidates given to verify: replies the subject sent before (one with other
\* case and spacing) and texts of 12 to 33 words.
VerifyCandidates ==
    {<<"k", " ", "x", "a", " ", "b", "r", "o">>, <<"K", " ", " ", "X", "A", " ", "B", "R", "O">>, <<"h", "u", "s", "s">>}
        \cup {Words(n) : n \in {12, 13, 16, 17, 30, 31, 33}}

VerifyHistories ==
    {<<>>, <<MsgContact, MsgHuss, MsgOk, MsgKXaBro>>, <<MsgLong, MsgLong, MsgLong>>}

VerifyCallInputs ==
    {[fn |-> "verify", candidate |-> c, recentMessages |-> h, isEmergency |-> e,
      result |-> r] :
        c \in VerifyCandidates, h \in VerifyHistories, e \in BOOLEAN,
        r \in {JudgeFailHead \o L_none, L_PASS}}

\* The upper word bound each stage computes from the wordStats and isEmergency
\* arguments thinkAndReply passes to it.
StageBounds(wordStats, emergency) ==
    [decide |-> EffectiveUpper(emergency, wordStats),
     write |-> EffectiveUpper(emergency, wordStats),
     verify |-> EffectiveUpper(emergency, wordStats),
     rewrite |-> EffectiveUpper(emergency, wordStats)]

StageBoundsInputs ==
    {[fn |-> "stageBounds", recentMessages |-> h, isEmergency |-> e] :
        h \in VerifyHistories, e \in BOOLEAN}

\* Message bodies given to isLikelyAutoFiller.
FillerCandidates ==
    {<<>>,
     <<" ", " ", " ">>,
     <<"o", "k">>,
     <<"O", "K">>,
     <<" ", "o", "k", " ">>,
     <<"k">>,
     <<"h", "u", "s", "s">>,
     <<"o", "k", " ", "l", "a">>,
     <<"l", "a", " ", "o", "k">>,
     <<"k", " ", "x", "a", " ", "b", "r", "o">>,
     <<"o", "k", " ", "o", "k", " ", "o", "k">>,
     <<"h", "m", "m", "\n", "o", "k">>}

FillerInputs == {[fn |-> "isLikelyAutoFiller", body |-> b] : b \in FillerCandidates}

\* Outputs of the completion service given to write's cleaning: the outputs
\* above, a quoted text after the speaker label, a text after the bracketed
\* label, a lower-case label, a quoted text between spaces, both labels in
\* either order, and a text in two pairs of quotes.
CleanCandidates ==
    RawReplies \cup
    {<<"A", "v", "i", "n", ":", " ", "\"", "o", "k", " ", "l", "a", "\"">>,
     <<"[", "A", "v", "i", "n", "]", ":", " ", "o", "k", " ", "l", "a">>,
     <<"a", "v", "i", "n", ":", "o", "k">>,
     <<" ", "\"", "o", "k", " ", "l", "a", "\"", " ">>,
     <<"A", "v", "i", "n", ":", " ", "[", "A", "v", "i", "n", "]", ":", " ", "o", "k">>,
     <<"[", "A", "v", "i", "n", "]", ":", " ", "A", "v", "i", "n", ":", " ", "o", "k">>,
     <<"\"", "\"", "o", "k", "\"", "\"">>}

CleanInputs == {[fn |-> "write", reply |-> r] : r \in CleanCandidates}

\* Answers of the completion service to verify's prompt: the outputs above, a
\* lower-case pass after white space, PASS after other text, neither PASS nor
\* FAIL, PASS inside the reason of a FAIL, and a pass with a full stop.
ParseInputs ==
    {[fn |-> "parseVerdict", result |-> r] :
        r \in JudgeOutputs \cup
              {<<" ", "\n", "p", "a", "s", "s", "\n", "r", "e", "a", "s", "o", "n", ":", " ", "o", "k">>,
               <<"V", "e", "r", "d", "i", "c", "t", ":", " ", "P", "A", "S", "S">>,
               <<"l", "o", "o", "k", "s", " ", "g", "o", "o", "d">>,
               <<"F", "A", "I", "L", "\n", "R", "E", "A", "S", "O", "N", ":", " ", "w", "o",
                 "u", "l", "d", " ", "n", "o", "t", " ", "P", "A", "S", "S">>,
               <<"P", "a", "s", "s", ".">>}}

FnInputs ==
    ResolveInputs \cup ContextCallInputs \cup VerifyCallInputs \cup StageBoundsInputs
        \cup FillerInputs \cup CleanInputs \cup ParseInputs

FnInit ==
    /\ NoBatch
    /\ NoTraffic
    /\ SchedulerDown
    /\ AlexIdle
    /\ fn = "none"
    /\ fnIn \in FnInputs
    /\ fnOut = NULL

\* The code after the loop runs on the verdict of the last attempt.
ApplyAfterLoop ==
    /\ fn = "none"
    /\ fnIn.fn = "afterLoop"
    /\ fn' = "afterLoop"
    /\ fnOut' = Resolution(fnIn.lastVerdict)
    /\ UNCHANGED <<fnIn, outsideFn>>

\* thinkAndReply derives the context from the messages read.
ApplyDeriveContext ==
    /\ fn = "none"
    /\ fnIn.fn = "context"
    /\ fn' = "context"
    /\ fnOut' = DeriveContext(fnIn.recentMessages)
    /\ UNCHANGED <<fnIn, outsideFn>>

\* verify is called with a candidate and the context thinkAndReply derived.
ApplyVerify ==
    /\ fn = "none"
    /\ fnIn.fn = "verify"
    /\ fn' = "verify"
    /\ \E c \in {DeriveContext(fnIn.recentMessages)} :
          fnOut' = VerifyOutcome(fnIn.candidate, c.conversationFlow, c.wordStats,
                                 fnIn.isEmergency, fnIn.result)
    /\ UNCHANGED <<fnIn, outsideFn>>

\* decide, write, verify and rewrite compute their upper word bound.
ApplyStageBounds ==
    /\ fn = "none"
    /\ fnIn.fn = "stageBounds"
    /\ fn' = "stageBounds"
    /\ \E c \in {DeriveContext(fnIn.recentMessages)} :
          fnOut' = StageBounds(c.wordStats, fnIn.isEmergency)
    /\ UNCHANGED <<fnIn, outsideFn>>

ApplyIsLikelyAutoFiller ==
    /\ fn = "none"
    /\ fnIn.fn = "isLikelyAutoFiller"
    /\ fn' = "isLikelyAutoFiller"
    /\ fnOut' = isLikelyAutoFiller(fnIn.body)
    /\ UNCHANGED <<fnIn, outsideFn>>

\* write (and rewrite, with the same statements) cleans the output of the
\* completion service and returns it.
ApplyCleanReply ==
    /\ fn = "none"
    /\ fnIn.fn = "write"
    /\ fn' = "write"
    /\ fnOut' = CleanReply(fnIn.reply)
    /\ UNCHANGED <<fnIn, outsideFn>>

\* verify reads the answer of the completion service.
ApplyParseVerdict ==
    /\ fn = "none"
    /\ fnIn.fn = "parseVerdict"
    /\ fn' = "parseVerdict"
    /\ fnOut' = ParseVerdict(fnIn.result)
    /\ UNCHANGED <<fnIn, outsideFn>>

FnNext ==
    \/ ApplyParseVerdict
    \/ ApplyAfterLoop
    \/ ApplyDeriveContext
    \/ ApplyVerify
    \/ ApplyStageBounds
    \/ ApplyIsLikelyAutoFiller
    \/ ApplyCleanReply

FnSpec == FnInit /\ [][FnNext]_vars

\* ---------------------------------------------------------------------------
\* Debouncing of incoming messages (auto-reply.js), for one contact
\* ---------------------------------------------------------------------------

\* Messages received or typed on the phone in one behaviour.
MaxIncoming == 2

\* msg.type of the messages received: text, image, voice note.
MessageTypes == {"chat", "image", "ptt"}

\* The body of the n-th message.
Body(n) == <<"m">> \o Digits(n)

\* msg.id._serialized of the n-th message.
SerializedId(n) == <<"3", "E", "B", "0">> \o Digits(n)

IMAGE_ == <<"[", "i", "m", "a", "g", "e", "]">>

\* isText || isImage: text messages with a body, images and stickers.
IsTextOrImage(type, body) == (type = "chat" /\ body # <<>>) \/ type = "image"

\* msg.body || '[image]'
QueuedBody(body) == IF body # <<>> THEN body ELSE IMAGE_

\* The timer of an entry that keeps running when a message is added.
NewTimeout_KeepsRunning(pending) ==
    IF pending = NO_ENTRY THEN DebounceSeconds ELSE pending.timeout

\* clearTimeout(pending.timeout) and entry.timeout = setTimeout(..., DEBOUNCE_MS):
\* the seconds left on the entry's timer after a message was added.
NewTimeout(pending) == DebounceSeconds

\* messages.length === 1 ? messages[0] : messages.join('\n')
CombinedMessage(messages) ==
    IF Len(messages) = 1 THEN messages[1] ELSE Join(messages, <<"\n">>)

\* The sequence without its i-th element.
Without(seq, i) == SubSeq(seq, 1, i - 1) \o SubSeq(seq, i + 1, Len(seq))

\* ClearedTimers when the timer of the entry is left running.
ClearedTimers_None(pending) == 0

\* if (pending) clearTimeout(pending.timeout): the number of timers cleared.
ClearedTimers(pending) == IF pending = NO_ENTRY THEN 0 ELSE 1

\* config.isAutoReplyEnabled(contactId)
isAutoReplyEnabled == autoReply

\* handleIncomingMessage: store the message; return for a group chat, a contact
\* without auto-reply and a message that is neither text nor image; otherwise
\* add the body to the contact's entry and restart its timer.
HandleIncomingMessage ==
    /\ arrived < MaxIncoming
    /\ arrived' = arrived + 1
    /\ \E type \in MessageTypes, hasBody \in BOOLEAN, isGroup \in BOOLEAN :
          \E body \in {IF hasBody THEN Body(arrived + 1) ELSE <<>>} :
             /\ db' = Append(db, [id |-> SerializedId(arrived + 1), body |-> body,
                                  fromMe |-> FALSE, timestamp |-> 1, byBot |-> FALSE])
             /\ IF isGroup \/ ~isAutoReplyEnabled \/ ~IsTextOrImage(type, body)
                THEN UNCHANGED <<pendingReplies, quiet, accepted, timers>>
                ELSE /\ pendingReplies' =
                           [messages |-> Append(pendingReplies.messages, QueuedBody(body)),
                            timeout |-> NewTimeout(pendingReplies)]
                     /\ timers' = timers - ClearedTimers(pendingReplies) + 1
                     /\ quiet' = 0
                     /\ accepted' = Append(accepted, QueuedBody(body))
    /\ UNCHANGED <<activeRuns, created, started, autoReply>>
    /\ UNCHANGED outsideDebounce

\* The subject types a message on the phone: the client emits message_create.
PhoneMessageCreated ==
    /\ arrived < MaxIncoming
    /\ arrived' = arrived + 1
    /\ created' = Append(created, [id |-> SerializedId(arrived + 1),
                                   body |-> Body(arrived + 1), byBot |-> FALSE])
    /\ UNCHANGED <<pendingReplies, activeRuns, db, quiet, accepted, started, timers,
                   autoReply>>
    /\ UNCHANGED outsideDebounce

\* One second passes.
Tick ==
    /\ pendingReplies # NO_ENTRY \/ quiet < DebounceSeconds
    /\ pendingReplies' =
          IF pendingReplies = NO_ENTRY \/ pendingReplies.timeout = 0 THEN pendingReplies
          ELSE [pendingReplies EXCEPT !.timeout = @ - 1]
    /\ quiet' = IF quiet < DebounceSeconds THEN quiet + 1 ELSE quiet
    /\ UNCHANGED <<activeRuns, db, created, arrived, accepted, started, timers,
                   autoReply>>
    /\ UNCHANGED outsideDebounce

\* The timer callback: pendingReplies.delete(contactId), then sendDebouncedReply
\* combines the entry's messages and calls chain.thinkAndReply.
TimerFires ==
    /\ pendingReplies # NO_ENTRY
    /\ pendingReplies.timeout = 0
    /\ pendingReplies' = NO_ENTRY
    /\ activeRuns' = Append(activeRuns,
                            [n |-> Len(started) + 1,
                             combinedMessage |-> CombinedMessage(pendingReplies.messages),
                             reply |-> NULL,
                             at |-> "chain"])
    /\ started' = Append(started,
                         [messages |-> pendingReplies.messages,
                          combinedMessage |-> CombinedMessage(pendingReplies.messages),
                          quiet |-> quiet,
                          running |-> Len(activeRuns)])
    /\ timers' = timers - 1
    /\ UNCHANGED <<db, created, quiet, arrived, accepted, autoReply>>
    /\ UNCHANGED outsideDebounce

\* sendDebouncedReply has its reply: the text or null returned by
\* chain.thinkAndReply, or the text returned by agent.generateReply.
RunHasReply(i) ==
    /\ activeRuns[i].at = "chain"
    /\ \E r \in {<<"o", "k">>, NULL} :
          activeRuns' = [activeRuns EXCEPT ![i].reply = r, ![i].at = "send"]
    /\ UNCHANGED <<pendingReplies, db, created, quiet, arrived, accepted, started,
                   timers, autoReply>>
    /\ UNCHANGED outsideDebounce

\* The delays are over and client.sendMessage(contactId, reply) returned: the
\* client emits message_create for the message sent.
RunSends(i) ==
    /\ activeRuns[i].at = "send"
    /\ created' = Append(created, [id |-> SerializedId(10 + activeRuns[i].n),
                                   body |-> activeRuns[i].reply, byBot |-> TRUE])
    /\ activeRuns' = [activeRuns EXCEPT ![i].at = "store"]
    /\ UNCHANGED <<pendingReplies, db, quiet, arrived, accepted, started, timers,
                   autoReply>>
    /\ UNCHANGED outsideDebounce

\* await vectordb.storeMessage({ id: `auto_...`, body: reply, fromMe: true });
\* sendDebouncedReply returns.
RunStores(i) ==
    /\ activeRuns[i].at = "store"
    /\ db' = Append(db, [id |-> AUTO_PREFIX \o Digits(activeRuns[i].n),
                         body |-> activeRuns[i].reply, fromMe |-> TRUE,
                         timestamp |-> 1, byBot |-> TRUE])
    /\ activeRuns' = Without(activeRuns, i)
    /\ UNCHANGED <<pendingReplies, created, quiet, arrived, accepted, started, timers,
                   autoReply>>
    /\ UNCHANGED outsideDebounce

\* An awaited call of sendDebouncedReply rejects (agent.generateReply after
\* chain.thinkAndReply, client.sendMessage, vectordb.storeMessage), or
\* reply.length throws for a null reply before the typing delay: the timer
\* callback logs the error.
RunFails(i) ==
    /\ activeRuns[i].at \in {"chain", "send", "store"}
    /\ activeRuns' = Without(activeRuns, i)
    /\ UNCHANGED <<pendingReplies, db, created, quiet, arrived, accepted, started,
                   timers, autoReply>>
    /\ UNCHANGED outsideDebounce

\* handleOutgoingMessage for a message_create event of an own message: store it
\* under its serialized id.
HandleOutgoingMessage ==
    /\ created # <<>>
    /\ created' = Tail(created)
    /\ db' = Append(db, [id |-> Head(created).id,
                         body |-> IF Head(created).body = NULL THEN <<>>
                                  ELSE Head(created).body,
                         fromMe |-> TRUE, timestamp |-> 1,
                         byBot |-> Head(created).byBot])
    /\ UNCHANGED <<pendingReplies, activeRuns, quiet, arrived, accepted, started, timers,
                   autoReply>>
    /\ UNCHANGED outsideDebounce

\* config.addAutoReplyContact / config.removeAutoReplyContact for the contact
\* (dashboard or /autoreply command).
AddAutoReplyContact ==
    /\ ~autoReply
    /\ autoReply' = TRUE
    /\ UNCHANGED <<pendingReplies, activeRuns, db, created, quiet, arrived, accepted,
                   started, timers>>
    /\ UNCHANGED outsideDebounce

RemoveAutoReplyContact ==
    /\ autoReply
    /\ autoReply' = FALSE
    /\ UNCHANGED <<pendingReplies, activeRuns, db, created, quiet, arrived, accepted,
                   started, timers>>
    /\ UNCHANGED outsideDebounce

DebounceNext ==
    \/ AddAutoReplyContact
    \/ RemoveAutoReplyContact
    \/ HandleIncomingMessage
    \/ PhoneMessageCreated
    \/ Tick
    \/ TimerFires
    \/ \E i \in 1..Len(activeRuns) : RunHasReply(i)
    \/ \E i \in 1..Len(activeRuns) : RunSends(i)
    \/ \E i \in 1..Len(activeRuns) : RunStores(i)
    \/ \E i \in 1..Len(activeRuns) : RunFails(i)
    \/ HandleOutgoingMessage

DebounceSpec == Init /\ [][DebounceNext]_vars

\* ---------------------------------------------------------------------------
\* The scheduler (scheduler.js)
\* ---------------------------------------------------------------------------

\* The last instant of the clock, the number of ids given in one run of the
\* process, and the most jobs node-schedule holds for one entry.
MaxClock == 2
MaxJobs == 2
MaxTimers == 2

\* IsFuture with the present instant included.
IsFuture_OrNow(entry, t) == entry.sendAt >= t

\* new Date(entry.sendAt).getTime() > now
IsFuture(entry, t) == entry.sendAt > t

\* schedule.scheduleJob(sendTime, ...) gives a job for a date that is not in
\* the past, and null otherwise.
HasJob(entry, t) == entry.sendAt >= t

\* The jobs made for the entry `id` that node-schedule holds or whose callback
\* has not ended.
JobsOf(id) == {item \in liveJobs \cup running : item.entry.id = id}

\* schedule.scheduleJob returns a new Job object: it is none of the jobs made
\* before for the entry.
NewJob(entry) ==
    [job |-> CHOOSE k \in 1..(Cardinality(JobsOf(entry.id)) + 1) :
                 /\ \A item \in JobsOf(entry.id) : item.job # k
                 /\ \A j \in 1..(k - 1) : \E item \in JobsOf(entry.id) : item.job = j,
     entry |-> entry]

\* activeJobs.set(id, { job, entry }): one item per id.
SetJob(jobs, item) == {a \in jobs : a.entry.id # item.entry.id} \cup {item}

\* activeJobs.delete(id)
DeleteJob(jobs, id) == {a \in jobs : a.entry.id # id}

\* init's loop over the saved entries: the job counter raised to each id that
\* is not below it.
RECURSIVE CounterAfter(_, _)
CounterAfter(saved, counter) ==
    IF saved = <<>> THEN counter
    ELSE CounterAfter(Tail(saved),
                      IF Head(saved).id >= counter THEN Head(saved).id ELSE counter)

\* init's loop over the saved entries: scheduleJob(entry, false) for each entry
\* that is still in the future.
RECURSIVE JobsAfter(_, _, _)
JobsAfter(saved, jobs, t) ==
    IF saved = <<>> THEN jobs
    ELSE JobsAfter(Tail(saved),
                   IF IsFuture(Head(saved), t) /\ HasJob(Head(saved), t)
                   THEN SetJob(jobs, NewJob(Head(saved))) ELSE jobs,
                   t)

\* The jobs node-schedule holds after init's loop: one more for each saved
\* entry that is still in the future, whether or not the entry had one.
TimersAfter(saved, live, t) ==
    live \cup {NewJob(saved[i]) :
                  i \in {j \in 1..Len(saved) :
                            IsFuture(saved[j], t) /\ HasJob(saved[j], t)}}

\* init()
init ==
    /\ jobCounter' = CounterAfter(scheduledMessages, jobCounter)
    /\ activeJobs' = JobsAfter(scheduledMessages, activeJobs, now)
    /\ liveJobs' = TimersAfter(scheduledMessages, liveJobs, now)
    /\ scheduledMessages' =
          IF Len(scheduledMessages) > 0
          THEN SelectSeq(scheduledMessages, LAMBDA e : IsFuture(e, now))
          ELSE scheduledMessages

\* The process starts; at the client's first 'ready' event scheduler.init()
\* restores the persisted entries.
SchedulerInit ==
    /\ ~schedulerUp
    /\ schedulerUp' = TRUE
    /\ init
    /\ restored' = [scheduledMessages |-> scheduledMessages, delivered |-> delivered,
                    done |-> TRUE]
    /\ UNCHANGED <<now, delivered, running, cancelled>>
    /\ UNCHANGED outsideScheduler

\* The client emits 'ready' again (it reconnected) while the process runs: the
\* handler calls scheduler.init() again.
ReadyAgain ==
    /\ schedulerUp
    /\ \A i \in 1..Len(scheduledMessages) :
          IsFuture(scheduledMessages[i], now)
              => Cardinality(JobsOf(scheduledMessages[i].id)) < MaxTimers
    /\ init
    /\ restored' = NOT_RESTORED
    /\ UNCHANGED <<now, schedulerUp, delivered, running, cancelled>>
    /\ UNCHANGED outsideScheduler

\* scheduleMessage -> scheduleJob(entry): the next id; the entry gets a job and
\* is persisted when its date is not in the past, otherwise null is returned.
ScheduleMessage ==
    /\ schedulerUp
    /\ jobCounter < MaxJobs
    /\ jobCounter' = jobCounter + 1
    /\ \E sendAt \in 0..MaxClock, generateWithAI \in BOOLEAN :
          \E item \in {NewJob([id |-> jobCounter + 1, sendAt |-> sendAt,
                                generateWithAI |-> generateWithAI])} :
             IF HasJob(item.entry, now)
             THEN /\ activeJobs' = SetJob(activeJobs, item)
                  /\ liveJobs' = liveJobs \cup {item}
                  /\ scheduledMessages' = Append(scheduledMessages, item.entry)
             ELSE UNCHANGED <<activeJobs, liveJobs, scheduledMessages>>
    /\ restored' = NOT_RESTORED
    /\ UNCHANGED <<now, schedulerUp, delivered, running, cancelled>>
    /\ UNCHANGED outsideScheduler

\* removeFromConfig(id)
RemoveFromConfig(saved, id) == SelectSeq(saved, LAMBDA e : e.id # id)

\* The end of a job's callback: the message was sent or the failure was
\* logged; activeJobs.delete(id), removeFromConfig(id).
CallbackEnds(item, sendOk) ==
    /\ delivered' = IF sendOk THEN delivered (+) SetToBag({item.entry.id}) ELSE delivered
    /\ activeJobs' = DeleteJob(activeJobs, item.entry.id)
    /\ scheduledMessages' = RemoveFromConfig(scheduledMessages, item.entry.id)

\* A job of an entry with a written message runs at its date:
\* executeScheduledMessage sends entry.message (a failure is logged), then
\* the callback ends.
JobRuns ==
    /\ schedulerUp
    /\ \E item \in liveJobs :
          /\ item.entry.sendAt <= now
          /\ ~item.entry.generateWithAI
          /\ liveJobs' = liveJobs \ {item}
          /\ \E sendOk \in BOOLEAN : CallbackEnds(item, sendOk)
    /\ restored' = NOT_RESTORED
    /\ UNCHANGED <<jobCounter, now, schedulerUp, running, cancelled>>
    /\ UNCHANGED outsideScheduler

\* A job of an entry with generateWithAI runs at its date: the callback awaits
\* agent.generateFromInstruction.
JobGenerates ==
    /\ schedulerUp
    /\ \E item \in liveJobs :
          /\ item.entry.sendAt <= now
          /\ item.entry.generateWithAI
          /\ liveJobs' = liveJobs \ {item}
          /\ running' = running \cup {item}
    /\ restored' = NOT_RESTORED
    /\ UNCHANGED <<scheduledMessages, activeJobs, jobCounter, now, schedulerUp,
                   delivered, cancelled>>
    /\ UNCHANGED outsideScheduler

\* generateFromInstruction settles: the callback sends the generated message
\* (or a failure of either call is logged), then the callback ends.
JobSendsGenerated ==
    /\ schedulerUp
    /\ \E item \in running :
          /\ running' = running \ {item}
          /\ \E sendOk \in BOOLEAN : CallbackEnds(item, sendOk)
    /\ restored' = NOT_RESTORED
    /\ UNCHANGED <<liveJobs, jobCounter, now, schedulerUp, cancelled>>
    /\ UNCHANGED outsideScheduler

\* cancelJob(id): with an item in activeJobs its job is cancelled, the item is
\* deleted, the entry removed from the configuration, and true returned;
\* otherwise false.
CancelJob ==
    /\ schedulerUp
    /\ \E id \in 1..MaxJobs :
          IF \E item \in activeJobs : item.entry.id = id
          THEN \E item \in {a \in activeJobs : a.entry.id = id} :
                  /\ liveJobs' = liveJobs \ {item}
                  /\ activeJobs' = DeleteJob(activeJobs, id)
                  /\ scheduledMessages' = RemoveFromConfig(scheduledMessages, id)
                  /\ cancelled' = cancelled \cup {id}
          ELSE UNCHANGED <<liveJobs, activeJobs, scheduledMessages, cancelled>>
    /\ restored' = NOT_RESTORED
    /\ UNCHANGED <<jobCounter, now, schedulerUp, delivered, running>>
    /\ UNCHANGED outsideScheduler

\* The clock advances, the process running or not.
ClockTick ==
    /\ now < MaxClock
    /\ now' = now + 1
    /\ restored' = NOT_RESTORED
    /\ UNCHANGED <<scheduledMessages, activeJobs, jobCounter, schedulerUp, delivered,
                   liveJobs, running, cancelled>>
    /\ UNCHANGED outsideScheduler

\* The process stops: what it held in memory is lost, the configuration file
\* stays.
ProcessStops ==
    /\ schedulerUp
    /\ schedulerUp' = FALSE
    /\ activeJobs' = {}
    /\ liveJobs' = {}
    /\ running' = {}
    /\ jobCounter' = 0
    /\ delivered' = EmptyBag
    /\ cancelled' = {}
    /\ restored' = NOT_RESTORED
    /\ UNCHANGED <<scheduledMessages, now>>
    /\ UNCHANGED outsideScheduler

SchedulerNext ==
    \/ SchedulerInit
    \/ ReadyAgain
    \/ ScheduleMessage
    \/ JobRuns
    \/ JobGenerates
    \/ JobSendsGenerated
    \/ CancelJob
    \/ ClockTick
    \/ ProcessStops

SchedulerSpec == Init /\ [][SchedulerNext]_vars

\* The scheduler when the client becomes ready once in each run of the process.
RestartNext ==
    \/ SchedulerInit
    \/ ScheduleMessage
    \/ JobRuns
    \/ JobGenerates
    \/ JobSendsGenerated
    \/ CancelJob
    \/ ClockTick
    \/ ProcessStops

RestartSpec == Init /\ [][RestartNext]_vars

\* ---------------------------------------------------------------------------
\* Commands typed in the self-chat (alex.js)
\* ---------------------------------------------------------------------------

\* The number of self-chat messages typed by the user.
MaxTyped == 2

\* const PENDING_TTL = 60000; one step of the clock of the self-chat is as long.
PENDING_TTL == 60000
TickMs == PENDING_TTL

\* matchedContactId: null
NO_CONTACT == "null"

\* What gatherContacts returns.
Contacts ==
    << [id |-> "c1", name |-> <<"A", "y", "u", "s", "h", " ", "K">>],
       [id |-> "c2", name |-> <<"A", "y", "u", "s", "h", " ", "M">>],
       [id |-> "c3", name |-> <<"P", "r", "i", "y", "a">>] >>

\* What the command parser can return: the action, the name the user used (or
\* null), and its own pick from the list (or null).
Actions == {"send_message", "schedule_message", "toggle_autoreply", "unknown"}
Queries == {NULL, <<"a", "y", "u", "s", "h">>, <<"P", "r", "i", "y", "a">>,
            <<"z", "e", "d">>}
LLMPicks == {0, 1}

\* What the user can answer to the numbered list.
Replies == {<<"1">>, <<"2">>, <<"3">>, <<"a", "y", "u", "s", "h", " ", "m">>,
            <<"a", "y", "u", "s", "h">>, <<"w", "h", "o">>}

\* s.includes(sub)
includes(s, sub) ==
    \E i \in 0..(Len(s) - Len(sub)) : SubSeq(s, i + 1, i + Len(sub)) = sub

\* contacts.filter(c => test(c.name.toLowerCase(), q)), for the four tests of
\* fuzzyMatchContacts.
FilterBy(contacts, q, test) ==
    SelectSeq(contacts,
              LAMBDA c : CASE test = "exact" -> toLowerCase(c.name) = q
                           [] test = "startsWith" -> startsWith(toLowerCase(c.name), q)
                           [] test = "contains" -> includes(toLowerCase(c.name), q)
                           [] test = "reverse" -> includes(q, toLowerCase(c.name)))

\* fuzzyMatchContacts(query, contacts): exact > starts with > contains >
\* reverse contains.
fuzzyMatchContacts(query, contacts) ==
    IF query = NULL \/ query = <<>> THEN <<>>
    ELSE LET q == trim(toLowerCase(query))
         IN  IF Len(FilterBy(contacts, q, "exact")) = 1
             THEN FilterBy(contacts, q, "exact")
             ELSE IF Len(FilterBy(contacts, q, "startsWith")) >= 1
             THEN FilterBy(contacts, q, "startsWith")
             ELSE IF Len(FilterBy(contacts, q, "contains")) >= 1
             THEN FilterBy(contacts, q, "contains")
             ELSE FilterBy(contacts, q, "reverse")

\* fuzzyMatchContacts(query, contacts) for each name the user can use.
AllMatches == [q \in Queries |-> fuzzyMatchContacts(q, Contacts)]

\* What the model returned, as parseCommand reads it.
LLMParsed(action, query, pick) ==
    [action |-> action,
     contactQuery |-> query,
     matchedContactId |-> IF pick = 0 THEN NO_CONTACT ELSE Contacts[pick].id,
     matchedContactName |-> IF pick = 0 THEN NULL ELSE Contacts[pick].name,
     multipleMatches |-> <<>>]

\* The end of parseCommand: the check for several matches with the name the
\* user used.
CheckMatches(parsed) ==
    LET allMatches == AllMatches[parsed.contactQuery]
    IN  IF Len(allMatches) > 1
        THEN [parsed EXCEPT !.multipleMatches = allMatches,
                            !.matchedContactId = NO_CONTACT,
                            !.matchedContactName = NULL]
        ELSE IF Len(allMatches) = 1
        THEN [parsed EXCEPT !.matchedContactId = allMatches[1].id,
                            !.matchedContactName = allMatches[1].name]
        ELSE parsed

\* parseCommand when the model's answer is not JSON.
PARSE_FAILED ==
    [action |-> "unknown", contactQuery |-> NULL, matchedContactId |-> NO_CONTACT,
     matchedContactName |-> NULL, multipleMatches |-> <<>>]

\* Everything parseCommand can return.
ParseResults ==
    {CheckMatches(LLMParsed(a, q, p)) :
        a \in Actions, q \in Queries, p \in LLMPicks} \cup {PARSE_FAILED}

\* NeedsClarification for more than two matches only.
NeedsClarification_MoreThanTwo(parsed) == Len(parsed.multipleMatches) > 2

\* parsed.multipleMatches && parsed.multipleMatches.length > 1
NeedsClarification(parsed) == Len(parsed.multipleMatches) > 1

\* parseInt(reply, 10): the number written by the leading digits, NaN (-1 here)
\* when there is none.
RECURSIVE LeadingNumber(_, _)
LeadingNumber(s, acc) ==
    IF s = <<>> \/ ~(\E d \in 1..10 : DigitChars[d] = Head(s)) THEN acc
    ELSE LeadingNumber(Tail(s), 10 * acc + (CHOOSE d \in 1..10 : DigitChars[d] = Head(s)) - 1)

parseInt(s) ==
    IF s = <<>> \/ ~(\E d \in 1..10 : DigitChars[d] = Head(s)) THEN -1
    ELSE LeadingNumber(s, 0)

\* matches.find(c => ...): the index of the first match that passes, 0 if none.
FindIndex(matches, q, test) ==
    LET hits == {i \in 1..Len(matches) :
                    CASE test = "exact" -> toLowerCase(matches[i].name) = q
                      [] test = "contains" -> includes(toLowerCase(matches[i].name), q)
                      [] test = "reverse" -> includes(q, toLowerCase(matches[i].name))}
    IN  IF hits = {} THEN 0 ELSE CHOOSE i \in hits : \A j \in hits : i <= j

\* handleClarification's choice: the index in matches of what the answer picks,
\* 0 when it picks nothing.
Picked(answer, matches) ==
    LET num == parseInt(answer)
        q == toLowerCase(answer)
    IN  IF num >= 1 /\ num <= Len(matches) THEN num
        ELSE IF FindIndex(matches, q, "exact") # 0 THEN FindIndex(matches, q, "exact")
        ELSE IF FindIndex(matches, q, "contains") # 0 THEN FindIndex(matches, q, "contains")
        ELSE FindIndex(matches, q, "reverse")

\* What executeCommand can do with a parsed command: do it ("done"), return a
\* failure ("refused"), or throw ("threw").  Nothing is done without a matched
\* contact or for an unknown action.
Outcomes(parsed) ==
    IF parsed.action = "unknown" THEN {"refused"}
    ELSE IF parsed.matchedContactId = NO_CONTACT \/ parsed.matchedContactName = NULL
    THEN {"refused"}
    ELSE {"done", "refused", "threw"}

\* ConfirmationSent without the message of the catch block.
ConfirmationSent_ThrowSilent(chat, call, outcome) ==
    IF outcome = "threw" THEN chat
    ELSE Append(chat, [kind |-> "confirmation", success |-> outcome = "done",
                       call |-> call, matches |-> <<>>])

\* The message sent to the self-chat after executeCommand: the result with its
\* icon, or the error of the catch block.
ConfirmationSent(chat, call, outcome) ==
    Append(chat, [kind |-> IF outcome = "threw" THEN "error" ELSE "confirmation",
                  success |-> outcome = "done", call |-> call, matches |-> <<>>])

\* Date.now() - pendingClarification.timestamp > PENDING_TTL
Expired(pending) == pending.age * TickMs > PENDING_TTL

\* A command is typed: handleAlexCommand starts, clears the pending
\* clarification and waits for the contacts and the parser (`parsing` is the
\* number of the message whose command is at the parser, 0 once it is parsed).
CommandTyped ==
    /\ typed < MaxTyped
    /\ typed' = typed + 1
    /\ pendingClarification' = NO_PENDING
    /\ handlers' = Append(handlers, [by |-> "command", at |-> "parse",
                                     parsing |-> typed + 1,
                                     parsed |-> PARSE_FAILED, reply |-> NULL,
                                     matches |-> <<>>, call |-> 0])
    /\ UNCHANGED <<selfChat, executed>>
    /\ UNCHANGED outsideAlex

\* handleAlexCommand after parseCommand: several matches -> the pending
\* clarification is stored and the numbered list is sent; otherwise the command
\* goes to executeCommand.
CommandParsed(i) ==
    /\ handlers[i].at = "parse"
    /\ \E parsed \in ParseResults :
          IF NeedsClarification(parsed)
          THEN /\ pendingClarification' = [isNull |-> FALSE, parsed |-> parsed, age |-> 0]
               /\ selfChat' = Append(selfChat, [kind |-> "list", success |-> FALSE,
                                                call |-> 0,
                                                matches |-> parsed.multipleMatches])
               /\ handlers' = Without(handlers, i)
          ELSE /\ handlers' = [handlers EXCEPT ![i].at = "execute", ![i].parsed = parsed,
                                             ![i].parsing = 0]
               /\ UNCHANGED <<pendingClarification, selfChat>>
    /\ UNCHANGED <<executed, typed>>
    /\ UNCHANGED outsideAlex

\* gatherContacts or parseCommand throws: the catch block sends the error.
CommandParseThrows(i) ==
    /\ handlers[i].at = "parse"
    /\ selfChat' = Append(selfChat, [kind |-> "error", success |-> FALSE, call |-> 0,
                                     matches |-> <<>>])
    /\ handlers' = Without(handlers, i)
    /\ UNCHANGED <<pendingClarification, executed, typed>>
    /\ UNCHANGED outsideAlex

\* A message that is not a command is typed while a clarification is pending
\* and not expired: handleClarification consumes it and resolves the contact,
\* or says that the reply matches none of the options.
ClarificationTyped ==
    /\ typed < MaxTyped
    /\ pendingClarification # NO_PENDING
    /\ ~Expired(pendingClarification)
    /\ typed' = typed + 1
    /\ pendingClarification' = NO_PENDING
    /\ \E answer \in Replies :
          \E matches \in {pendingClarification.parsed.multipleMatches} :
             \E picked \in {Picked(trim(answer), matches)} :
                IF picked = 0
                THEN /\ selfChat' = Append(selfChat, [kind |-> "nomatch", success |-> FALSE,
                                                      call |-> 0, matches |-> <<>>])
                     /\ UNCHANGED handlers
                ELSE /\ handlers' =
                           Append(handlers,
                                  [by |-> "clarification", at |-> "execute",
                                   parsing |-> 0,
                                   parsed |-> [pendingClarification.parsed EXCEPT
                                                  !.matchedContactId = matches[picked].id,
                                                  !.matchedContactName = matches[picked].name,
                                                  !.multipleMatches = <<>>],
                                   reply |-> answer, matches |-> matches, call |-> 0])
                     /\ UNCHANGED selfChat
    /\ UNCHANGED executed
    /\ UNCHANGED outsideAlex

\* A message is typed after the time to reply: hasPendingClarification drops
\* the pending clarification.
ClarificationExpires ==
    /\ pendingClarification # NO_PENDING
    /\ Expired(pendingClarification)
    /\ pendingClarification' = NO_PENDING
    /\ UNCHANGED <<handlers, selfChat, executed, typed>>
    /\ UNCHANGED outsideAlex

\* executeCommand runs for a handler.
Executes(i) ==
    /\ handlers[i].at = "execute"
    /\ \E outcome \in Outcomes(handlers[i].parsed) :
          executed' = Append(executed, [by |-> handlers[i].by,
                                        parsed |-> handlers[i].parsed,
                                        reply |-> handlers[i].reply,
                                        matches |-> handlers[i].matches,
                                        outcome |-> outcome])
    /\ handlers' = [handlers EXCEPT ![i].at = "confirm", ![i].call = Len(executed) + 1]
    /\ UNCHANGED <<pendingClarification, selfChat, typed>>
    /\ UNCHANGED outsideAlex

\* The handler sends what came of executeCommand to the self-chat and ends.
Confirms(i) ==
    /\ handlers[i].at = "confirm"
    /\ selfChat' = ConfirmationSent(selfChat, handlers[i].call,
                                    executed[handlers[i].call].outcome)
    /\ handlers' = Without(handlers, i)
    /\ UNCHANGED <<pendingClarification, executed, typed>>
    /\ UNCHANGED outsideAlex

\* Time passes while a clarification is pending.
AlexTick ==
    /\ pendingClarification # NO_PENDING
    /\ ~Expired(pendingClarification)
    /\ pendingClarification' = [pendingClarification EXCEPT !.age = @ + 1]
    /\ UNCHANGED <<handlers, selfChat, executed, typed>>
    /\ UNCHANGED outsideAlex

AlexNext ==
    \/ CommandTyped
    \/ ClarificationTyped
    \/ ClarificationExpires
    \/ AlexTick
    \/ \E i \in 1..Len(handlers) : CommandParsed(i)
    \/ \E i \in 1..Len(handlers) : CommandParseThrows(i)
    \/ \E i \in 1..Len(handlers) : Executes(i)
    \/ \E i \in 1..Len(handlers) : Confirms(i)

AlexSpec == Init /\ [][AlexNext]_vars

\* ---------------------------------------------------------------------------
\* Observations used by the properties
\* ---------------------------------------------------------------------------

CallsOf(stage) == SelectSeq(trace, LAMBDA c : c.stage = stage)
VerifyCalls == CallsOf("Verify")
RewriteCalls == CallsOf("Rewrite")

StepsLogged(stepName) == Len(SelectSeq(lines, LAMBDA l : l.step = stepName))

\* The outcome recorded by logFinal, or "NONE" while there is none.
FinalOutcome ==
    IF lines # <<>> /\ lines[Len(lines)].step = "Final"
    THEN lines[Len(lines)].status ELSE "NONE"

Returned(value) == ret = [kind |-> "returned", value |-> value]

AllVerdictsFailed ==
    /\ Len(VerifyCalls) = 3
    /\ \A i \in 1..3 : VerifyCalls[i].outcome = "FAIL"

\* A suggestion that is absent or empty, the word none, or 100 characters or more.
NoUsableSuggestion(suggestion) ==
    suggestion = <<>> \/ suggestion = L_none \/ Len(suggestion) >= 100

\* The bodies queued so far, batch by batch: those given to the calls of
\* sendDebouncedReply, then those still waiting in the contact's entry.
RECURSIVE Flatten(_)
Flatten(batches) ==
    IF batches = <<>> THEN <<>> ELSE Head(batches) \o Flatten(Tail(batches))

ThrewIn(stages) ==
    \E i \in 1..Len(trace) : trace[i].stage \in stages /\ trace[i].outcome = "THROW"

\* ---------------------------------------------------------------------------
\* Properties
\* ---------------------------------------------------------------------------

\* C1: if all 3 verification attempts of an invocation return a failing verdict
\* and the last verdict has no usable suggestion, thinkAndReply returns null with
\* final outcome SKIPPED (and so none of the rejected candidates).
C1_SkippedWithoutFallback ==
    (AllVerdictsFailed /\ NoUsableSuggestion(VerifyCalls[3].output))
        => (Returned(NULL) /\ FinalOutcome = "SKIPPED")

C1_Witness ==
    /\ AllVerdictsFailed
    /\ Len(VerifyCalls[3].output) >= 100
    /\ Returned(NULL)

\* C2 (as claimed): a candidate returned as the reply (outcome SENT) is one whose
\* own verification passed or threw; its most recent verdict was not FAIL.
C2_ReturnedCandidateNotFailed ==
    (ret.kind = "returned" /\ FinalOutcome = "SENT")
        => /\ VerifyCalls # <<>>
           /\ VerifyCalls[Len(VerifyCalls)].input = ret.value
           /\ VerifyCalls[Len(VerifyCalls)].outcome \in {"PASS", "THROW"}

\* C3 (as claimed): when thinkAndReply returned null, sendDebouncedReply makes no
\* sendMessage call and stores no outgoing message for the batch.
C3_NullIsNeverSent ==
    Returned(NULL) => (sent = <<>> /\ stored = <<>>)

\* C4: if the completion-service call of verify throws at any attempt,
\* thinkAndReply does not raise; it returns the candidate that was being verified
\* with outcome SENT, and makes no further verify or rewrite call.
C4_VerifyThrowFailsOpen ==
    \A i \in 1..Len(trace) :
        (trace[i].stage = "Verify" /\ trace[i].outcome = "THROW")
            => /\ Returned(trace[i].input)
               /\ FinalOutcome = "SENT"
               /\ \A j \in (i + 1)..Len(trace) : trace[j].stage \notin {"Verify", "Rewrite"}

C4_Witness ==
    /\ Len(VerifyCalls) = 3
    /\ VerifyCalls[3].outcome = "THROW"
    /\ Returned(VerifyCalls[3].input)
    /\ pc = "idle"

C6_RewriteThrowPropagates ==
    ThrewIn({"Rewrite"}) => ret.kind = "raised"

\* C7: if verify passes at attempt k (k in 0..2), thinkAndReply returns exactly
\* the candidate verified at attempt k with outcome SENT, after k+1 verify calls
\* and k rewrite calls (logged as k+1 Verify steps and k Rewrite steps); a pass at
\* attempt 0 returns the Write output unchanged.
C7_PassReturnsVerifiedCandidate ==
    \A i \in 1..Len(VerifyCalls) :
        VerifyCalls[i].outcome = "PASS"
            => /\ i \in 1..3
               /\ Len(VerifyCalls) = i
               /\ Len(RewriteCalls) = i - 1
               /\ StepsLogged("Verify") = i
               /\ StepsLogged("Rewrite") = i - 1
               /\ Returned(VerifyCalls[i].input)
               /\ FinalOutcome = "SENT"
               /\ ret.value = IF i = 1 THEN CallsOf("Write")[1].output
                              ELSE RewriteCalls[i - 1].output

C7_Witness ==
    /\ Len(VerifyCalls) = 3
    /\ VerifyCalls[3].outcome = "PASS"
    /\ Returned(RewriteCalls[2].output)
    /\ RewriteCalls[2].output # RewriteCalls[1].output

\* C8: in one invocation verify is called at most 3 times and rewrite at most 2
\* times, and rewrite is never called after the third failing verdict.
C8_RetryBudget ==
    /\ Len(VerifyCalls) <= 3
    /\ Len(RewriteCalls) <= 2
    /\ AllVerdictsFailed
          => /\ pc # "rewrite"
             /\ trace[Len(trace)].stage # "Rewrite"

C8_Witness ==
    /\ AllVerdictsFailed
    /\ Len(RewriteCalls) = 2
    /\ ret.kind = "returned"

InChain == pc \in {"think", "decide", "write", "verify", "rewrite"}

\* The calls thinkAndReply made to its five stages.
StageCalls ==
    SelectSeq(trace, LAMBDA c : c.stage \in {"Think", "Decide", "Write", "Verify", "Rewrite"})

\* C9: an invocation makes at most 3 + 3 + 2 stage calls, and - every awaited
\* call returning or throwing - every started invocation eventually returns
\* (SENT, SENT_SUGGESTION or SKIPPED) or raises.
C9_Terminates ==
    /\ [](Len(StageCalls) <= 8)
    /\ (InChain ~> (ret.kind = "raised"
                    \/ (ret.kind = "returned"
                        /\ FinalOutcome \in {"SENT", "SENT_SUGGESTION", "SKIPPED"})))

C9_Witness ==
    /\ AllVerdictsFailed
    /\ Len(StageCalls) = 8
    /\ FinalOutcome = "SKIPPED"

C11_SuggestionNeverNoneOrEmpty ==
    fn = "afterLoop"
        => /\ fnOut.decision = "SENT_SUGGESTION"
                => (fnOut.value # <<>> /\ fnOut.value # L_none)
           /\ trim(StripQuotes(fnIn.lastVerdict.suggestion)) \in {<<>>, L_none}
                => fnOut.decision = "SKIPPED"

\* C12 (as claimed): for every candidate that equals, ignoring case and
\* whitespace, one of the subject's recent replies that was not machine-generated,
\* verify returns pass = false without calling the completion service.
C12_DuplicateFailsLocally ==
    LET Squash(t) == toLowerCase(SelectSeq(t, LAMBDA c : ~IsSpace(c)))
    IN  (/\ fn = "verify"
         /\ \E i \in 1..Len(fnIn.recentMessages) :
               /\ fnIn.recentMessages[i].fromMe
               /\ ~startsWith(fnIn.recentMessages[i].id, AUTO_PREFIX)
               /\ ~startsWith(fnIn.recentMessages[i].id, WEB_PREFIX)
               /\ Squash(fnIn.recentMessages[i].body) = Squash(fnIn.candidate))
            => (~fnOut.verdict.pass /\ ~fnOut.llm)

\* C13: a candidate of more than 2 x effectiveUpper words and more than 12 words
\* gets pass = false from verify without a completion-service call; for every
\* other candidate the completion service is called and the verdict is the one
\* parsed from its answer.
C13_GrossLengthFailsLocally ==
    fn = "verify"
        => \E bound \in {IF fnIn.isEmergency THEN 15
                         ELSE getWordCountStats(ConversationFlow(fnIn.recentMessages)).upper} :
              IF WordCount(fnIn.candidate) > 2 * bound /\ WordCount(fnIn.candidate) > 12
              THEN ~fnOut.verdict.pass /\ ~fnOut.llm
              ELSE fnOut.llm /\ fnOut.verdict = ParseVerdict(fnIn.result)

C13_Witness ==
    /\ fn = "verify"
    /\ fnIn.isEmergency
    /\ WordCount(fnIn.candidate) = 31
    /\ ~fnOut.llm
    /\ ~fnOut.verdict.pass

\* C14: with the emergency flag true the upper word bound of decide, write,
\* verify and rewrite is 15 in each of them, whatever the upper computed from the
\* history; with the flag false it is that computed upper in each of them.
C14_EmergencyCeilingInEveryStage ==
    fn = "stageBounds"
        => \E upper \in {getWordCountStats(ConversationFlow(fnIn.recentMessages)).upper} :
              \A stage \in {"decide", "write", "verify", "rewrite"} :
                  fnOut[stage] = IF fnIn.isEmergency THEN 15 ELSE upper

C14_Witness ==
    /\ fn = "stageBounds"
    /\ fnIn.isEmergency
    /\ getWordCountStats(ConversationFlow(fnIn.recentMessages)).upper = 16
    /\ \A stage \in {"decide", "write", "verify", "rewrite"} : fnOut[stage] = 15

\* C15: for every non-empty sample of word counts, the statistics returned have
\* min and max the smallest and largest sample values, avg the mean of the sample
\* rounded to the nearest integer (halves up), p75 the element at index
\* floor(0.75 x n) of the sample in ascending order, and upper the largest of
\* avg + 3, p75 and 5.
C15_UpperIsMaxOfAvgPlus3P75And5 ==
    fn = "context"
        => \E sample \in {SampleLengths(fnOut.conversationFlow)} :
              sample # <<>>
                  => LET n == Len(sample)
                         s == fnOut.wordStats
                         total == Sum(sample)
                         below(v) == Cardinality({i \in 1..n : sample[i] < v})
                         upTo(v) == Cardinality({i \in 1..n : sample[i] <= v})
                     IN  /\ \E i \in 1..n : sample[i] = s.min
                         /\ \A i \in 1..n : s.min <= sample[i]
                         /\ \E i \in 1..n : sample[i] = s.max
                         /\ \A i \in 1..n : sample[i] <= s.max
                         /\ 2 * n * s.avg - n <= 2 * total
                         /\ 2 * total < 2 * n * s.avg + n
                         /\ below(s.p75) <= (3 * n) \div 4
                         /\ (3 * n) \div 4 < upTo(s.p75)
                         /\ s.upper \in {s.avg + 3, s.p75, 5}
                         /\ s.upper >= s.avg + 3
                         /\ s.upper >= s.p75
                         /\ s.upper >= 5

\* A sample of four values in which the element at index 3 in ascending order
\* exceeds avg + 3 and gives the upper bound.
C15_Witness ==
    /\ fn = "context"
    /\ Len(SampleLengths(fnOut.conversationFlow)) = 4
    /\ fnOut.wordStats.p75 > fnOut.wordStats.avg + 3
    /\ fnOut.wordStats.upper = fnOut.wordStats.p75
    /\ fnOut.wordStats.min < fnOut.wordStats.avg

\* C16: the statistics are those of the word counts of the subject's non-filler
\* lines when there are at least 3 of them, otherwise those of all of the
\* subject's usable lines, filler included; they are the fixed defaults
\* {min 1, avg 3, max 8, p75 5, upper 8} exactly when there is no usable line.
C16_RealSamplePreferredFromThree ==
    fn = "context"
        => \E bodies \in {UsableBodies(fnOut.conversationFlow)} :
           \E nonFiller \in {SelectSeq(bodies, LAMBDA b : ~isLikelyAutoFiller(b))} :
           \E chosen \in {IF Len(nonFiller) >= 3 THEN nonFiller ELSE bodies} :
              /\ (fnOut.wordStats = [min |-> 1, avg |-> 3, max |-> 8, p75 |-> 5, upper |-> 8])
                    <=> (bodies = <<>>)
              /\ bodies # <<>>
                    => fnOut.wordStats = StatsOf([i \in 1..Len(chosen) |-> WordCount(chosen[i])])

\* Three non-filler lines and a filler line, where the statistics of all four
\* lines would differ from the ones returned.
C16_Witness ==
    /\ fn = "context"
    /\ \E bodies \in {UsableBodies(fnOut.conversationFlow)} :
          /\ Len(bodies) = 4
          /\ Cardinality({i \in 1..4 : isLikelyAutoFiller(bodies[i])}) = 1
          /\ fnOut.wordStats # StatsOf([i \in 1..4 |-> WordCount(bodies[i])])

\* C17 (as claimed): the word statistics and the examples are those of the
\* history without the subject's machine-generated messages (id starting with
\* auto_ or web_): such a message adds no sample and no example, and its
\* [AI-GENERATED] tag is never counted as words.
C17_MachineLinesContributeNothing ==
    fn = "context"
        => \E human \in
                {SelectSeq(fnIn.recentMessages,
                           LAMBDA m : ~(m.fromMe /\ (startsWith(m.id, AUTO_PREFIX)
                                                        \/ startsWith(m.id, WEB_PREFIX))))} :
           \E flow \in {ConversationFlow(human)} :
              /\ fnOut.wordStats = getWordCountStats(flow)
              /\ fnOut.userExamples = extractUserExamples(flow)

\* C18 (as claimed): a message is classified as filler exactly when it has at
\* most 2 words and either is a single token shorter than some length threshold
\* (of at least 2 characters, whichever it is) or begins with a word of the
\* acknowledgement set; messages of 3 or more words and empty messages are not
\* filler.
C18_FillerAsClaimed ==
    fn = "isLikelyAutoFiller"
        => \E t \in {trim(fnIn.body)} :
           \E threshold \in 2..8 :
              fnOut = (/\ t # <<>>
                       /\ WordCount(t) <= 2
                       /\ \/ WordCount(t) = 1 /\ Len(t) < threshold
                          \/ toLowerCase(FirstWord(t)) \in AUTO_REPLY_FILLER)

\* C18 (amended): a message is classified as filler exactly when, once trimmed,
\* it is not empty, has at most 2 words and its first word, in lower case, is in
\* the acknowledgement set; the length of a single token plays no part, and
\* messages of 3 or more words and empty messages are not filler.
C18_FillerIsShortAndStartsWithAcknowledgement ==
    fn = "isLikelyAutoFiller"
        => \E t \in {trim(fnIn.body)} :
              /\ fnOut = (/\ t # <<>>
                          /\ WordCount(t) <= 2
                          /\ toLowerCase(FirstWord(t)) \in AUTO_REPLY_FILLER)
              /\ WordCount(t) >= 3 => fnOut = FALSE
              /\ fnIn.body = <<>> => fnOut = FALSE

\* A single one-character token outside the acknowledgement set is classified
\* as not filler.
C18_Witness ==
    /\ fn = "isLikelyAutoFiller"
    /\ fnIn.body = <<"k">>
    /\ fnOut = FALSE

\* C19 (as claimed): when reading the history store or the style-profile store
\* fails at the start of thinkAndReply, the invocation is not aborted: it goes on
\* with an empty context and raises nothing for this alone.
C19_ContextFailureDegrades ==
    ThrewIn({"Context"}) => ret.kind # "raised"

\* C20 (as claimed): when thinkAndReply returns a reply because verification
\* threw, the outcome recorded in the chain log is not the outcome recorded for
\* a reply sent after a PASS verdict (SENT).
C20_FailOpenLoggedDistinctly ==
    (/\ ret.kind = "returned"
     /\ VerifyCalls # <<>>
     /\ VerifyCalls[Len(VerifyCalls)].outcome = "THROW")
        => FinalOutcome # "SENT"

\* C21 (as claimed): at any point of an invocation the chain-log file holds every
\* step logged so far, also when the invocation raises later on.
C21_LogFileHoldsEveryStep ==
    /\ Len(lines) <= Len(logFile)
    /\ \A i \in 1..Len(lines) : logFile[i] = lines[i]

\* C22 (as claimed): for every output of the completion service, the text
\* returned by write (and rewrite) does not begin with "Name:" or "[Name]:" in
\* any letter case, neither begins nor ends with a quote character, and is left
\* unchanged by a second cleaning.
C22_CleanedReplyHasNoLabelOrQuote ==
    fn = "write"
        => /\ ~startsWith(toLowerCase(fnOut), toLowerCase(userName \o <<":">>))
           /\ ~startsWith(toLowerCase(fnOut),
                          toLowerCase(<<"[">> \o userName \o <<"]", ":">>))
           /\ fnOut # <<>> => (~IsQuote(fnOut[1]) /\ ~IsQuote(fnOut[Len(fnOut)]))
           /\ CleanReply(fnOut) = fnOut

\* C29: the stage calls of an invocation are made in the order Think, Decide,
\* Write, Verify and then alternately Rewrite and Verify; no call follows a
\* call that threw or a passing verdict; a Rewrite is made only right after a
\* failing verdict of one of the first MAX_RETRIES attempts, and after a Rewrite
\* that returned the next call is a Verify of the rewritten text.
C29_StageOrder ==
    \A i \in 1..Len(StageCalls) :
        /\ StageCalls[i].stage =
              CASE i = 1 -> "Think"
                [] i = 2 -> "Decide"
                [] i = 3 -> "Write"
                [] i > 3 /\ i % 2 = 0 -> "Verify"
                [] OTHER -> "Rewrite"
        /\ i > 1 => StageCalls[i - 1].outcome \notin {"THROW", "PASS"}
        /\ StageCalls[i].stage = "Rewrite"
              => /\ StageCalls[i - 1].outcome = "FAIL"
                 /\ (i - 3) \div 2 <= MAX_RETRIES
        /\ (StageCalls[i].stage = "Verify" /\ i > 4)
              => StageCalls[i].input = StageCalls[i - 1].output
        /\ (StageCalls[i].stage = "Rewrite" /\ StageCalls[i].outcome = "OK"
            /\ i = Len(StageCalls))
              => pc = "verify"

\* The longest invocation: two rewrites, three verifications.
C29_Witness ==
    /\ Len(StageCalls) = 8
    /\ StageCalls[5].stage = "Rewrite"
    /\ StageCalls[7].stage = "Rewrite"
    /\ StageCalls[8].stage = "Verify"
    /\ StageCalls[8].outcome = "FAIL"

\* C30: a Think that returned is followed by Decide whatever confidence it
\* reports: it changes nothing but the log and the record of calls, and the
\* Think step is logged with tag fail exactly when the analysis contains
\* "confidence:", optional whitespace and "LOW" in any letter case, else pass.
C30_LowConfidenceOnlyTagsTheLog ==
    [][(pc = "think" /\ Len(trace') = Len(trace) + 1
        /\ trace'[Len(trace')].stage = "Think" /\ trace'[Len(trace')].outcome = "OK")
          => /\ pc' = "decide"
             /\ UNCHANGED <<runs, ctx, isEmergency, reply, attempt, lastVerdict, logFile,
                            ret, callerReply, sent, stored, handlerError>>
             /\ lines' = Append(lines,
                                [step |-> "Think",
                                 status |-> IF IsLowConfidence(trace'[Len(trace')].output)
                                            THEN "fail" ELSE "pass"])]_vars

\* An invocation whose Think reported LOW confidence went through every stage
\* and returned the verified candidate.
C30_Witness ==
    /\ \E i \in 1..Len(lines) : lines[i].step = "Think" /\ lines[i].status = "fail"
    /\ IsLowConfidence(StageCalls[1].output)
    /\ Len(StageCalls) = 8
    /\ StageCalls[8].outcome = "PASS"
    /\ FinalOutcome = "SENT"

\* C23: sendDebouncedReply is called for a batch only when 4 seconds have
\* passed since the last accepted message of the contact; as long as an entry
\* waits, its timer has at least 4 seconds minus the time since that message
\* left, so every accepted message restarted it; the call receives the bodies
\* of its batch joined by newlines, and the batches hold the accepted bodies in
\* the order they were queued, each once.
C23_DebouncedBatch ==
    /\ \A k \in 1..Len(started) :
          /\ started[k].quiet >= 4
          /\ started[k].messages # <<>>
          /\ started[k].combinedMessage = Join(started[k].messages, <<"\n">>)
    /\ pendingReplies # NO_ENTRY
          => /\ pendingReplies.timeout + quiet >= 4
             /\ pendingReplies.timeout <= 4
    /\ Flatten([k \in 1..Len(started) |-> started[k].messages]) \o pendingReplies.messages
          = accepted

\* A call for a batch of two messages, the second an image without a caption.
C23_Witness ==
    /\ Len(started) = 1
    /\ started[1].messages = <<Body(1), IMAGE_>>
    /\ started[1].combinedMessage = Body(1) \o <<"\n">> \o IMAGE_
    /\ started[1].quiet >= 4

\* C24 (as claimed): a call of sendDebouncedReply for the contact starts only
\* when no earlier call for that contact is still running.
C24_RunsNeverOverlap ==
    \A k \in 1..Len(started) : started[k].running = 0

\* C25 (as claimed): a reply sent by sendDebouncedReply is stored only under an
\* id starting with auto_, so every line it gives in a later conversation flow
\* carries the [AI-GENERATED] tag.
C25_OwnReplyStoredOnlyTagged ==
    \A i \in 1..Len(db) :
        db[i].byBot
            => /\ startsWith(db[i].id, AUTO_PREFIX)
               /\ \E p \in 1..Len(FormatLine(db[i])) :
                     startsWith(sliceFrom(FormatLine(db[i]), p - 1), AI_TAG)


C27_AmbiguousCommandWaitsForChoice ==
    /\ pendingClarification # NO_PENDING =>
          /\ Len(AllMatches[pendingClarification.parsed.contactQuery]) > 1
          /\ pendingClarification.parsed.matchedContactId = NO_CONTACT
          /\ pendingClarification.parsed.matchedContactName = NULL
          /\ \E m \in 1..Len(selfChat) :
                /\ selfChat[m].kind = "list"
                /\ selfChat[m].matches = AllMatches[pendingClarification.parsed.contactQuery]
    /\ \A k \in 1..Len(executed) :
          /\ executed[k].by = "command" =>
                Len(AllMatches[executed[k].parsed.contactQuery]) <= 1
          /\ executed[k].by = "clarification" =>
                /\ executed[k].matches = AllMatches[executed[k].parsed.contactQuery]
                /\ \E j \in 1..Len(executed[k].matches) :
                      executed[k].matches[j].id = executed[k].parsed.matchedContactId
                /\ parseInt(executed[k].reply) \in 1..Len(executed[k].matches) =>
                      executed[k].parsed.matchedContactId =
                         executed[k].matches[parseInt(executed[k].reply)].id
          /\ executed[k].outcome = "done" => executed[k].parsed.matchedContactId # NO_CONTACT

\* The user answered "2" to the list of the two contacts called Ayush and the
\* command was done for the second one.
C27_Witness ==
    \E k \in 1..Len(executed) :
       /\ executed[k].by = "clarification"
       /\ executed[k].reply = <<"2">>
       /\ executed[k].outcome = "done"
       /\ executed[k].parsed.matchedContactId = "c2"

\* C28: once a handler that called executeCommand has ended, directly or after a
\* clarification, a message for that call is in the self-chat, and it states
\* success exactly when the command was done; this holds when executeCommand
\* threw.
C28_ExecutedCommandIsConfirmed ==
    \A k \in 1..Len(executed) :
       (\A i \in 1..Len(handlers) : handlers[i].call # k) =>
          \E m \in 1..Len(selfChat) :
             /\ selfChat[m].call = k
             /\ selfChat[m].kind \in {"confirmation", "error"}
             /\ selfChat[m].success = (executed[k].outcome = "done")

\* executeCommand threw after a clarification and the handler has ended.
C28_Witness ==
    /\ handlers = <<>>
    /\ \E k \in 1..Len(executed) :
          /\ executed[k].by = "clarification"
          /\ executed[k].outcome = "threw"


\* C31 (as claimed): the code after the loop records one outcome, SENT_SUGGESTION
\* or SKIPPED, returns null exactly when the outcome is SKIPPED, and the reply
\* shown in the footer is the returned value ('(none)' standing for null).
C31_FooterShowsReturnedValue ==
    fn = "afterLoop"
        => /\ fnOut.decision \in {"SENT", "SENT_SUGGESTION", "SKIPPED"}
           /\ (fnOut.value = NULL) <=> (fnOut.decision = "SKIPPED")
           /\ fnOut.footer = IF fnOut.value = NULL THEN NONE_TEXT ELSE fnOut.value


\* C32: verify's verdict passes exactly when the judge's output, after leading
\* white space, begins with the letters of PASS in any case; an output without
\* the label REASON: has the empty reason, and one without the label
\* SUGGESTION: the empty suggestion.
C32_PassOnlyWhenOutputBeginsWithPass ==
    LET HasLabel(t, label) ==
            \E i \in 1..Len(t) :
               /\ i + Len(label) - 1 <= Len(t)
               /\ toLowerCase(SubSeq(t, i, i + Len(label) - 1)) = toLowerCase(label)
        BeginsWithPass(t) ==
            \E k \in 0..Len(t) :
               /\ \A i \in 1..k : IsSpace(t[i])
               /\ k + 4 <= Len(t)
               /\ toLowerCase(SubSeq(t, k + 1, k + 4)) = <<"p", "a", "s", "s">>
    IN  fn = "parseVerdict"
           => /\ fnOut.pass <=> BeginsWithPass(fnIn.result)
              /\ ~HasLabel(fnIn.result, L_REASON) => fnOut.reason = <<>>
              /\ ~HasLabel(fnIn.result, L_SUGGESTION) => fnOut.suggestion = <<>>

\* The judge put PASS after other text, with no labelled line: the verdict
\* fails with empty reason and suggestion.
C32_Witness ==
    /\ fn = "parseVerdict"
    /\ fnIn.result = <<"V", "e", "r", "d", "i", "c", "t", ":", " ", "P", "A", "S", "S">>
    /\ fnOut = [pass |-> FALSE, reason |-> <<>>, suggestion |-> <<>>]


\* C33: whatever the order of arrivals and timer firings, every accepted body
\* is in exactly one place, the batch of one call of sendDebouncedReply or the
\* waiting entry, as many times as it was accepted; every batch was handed to one
\* call and no two running calls have the same batch; and the contact has one
\* live timer when an entry waits and none otherwise.
C33_EachAcceptedMessageInOneBatch ==
    LET handed == Flatten([k \in 1..Len(started) |-> started[k].messages])
                     \o pendingReplies.messages
        Count(seq, v) == Cardinality({i \in 1..Len(seq) : seq[i] = v})
    IN  /\ Len(handed) = Len(accepted)
        /\ \A i \in 1..Len(accepted) : Count(handed, accepted[i]) = Count(accepted, accepted[i])
        /\ \A i, j \in 1..Len(activeRuns) : activeRuns[i].n = activeRuns[j].n => i = j
        /\ \A i \in 1..Len(activeRuns) :
              /\ activeRuns[i].n \in 1..Len(started)
              /\ activeRuns[i].combinedMessage = started[activeRuns[i].n].combinedMessage
        /\ timers = IF pendingReplies = NO_ENTRY THEN 0 ELSE 1

\* The timer fired between two accepted messages: two calls, one message each,
\* and nothing waits.
C33_Witness ==
    /\ Len(started) = 2
    /\ Len(accepted) = 2
    /\ Len(started[1].messages) = 1
    /\ Len(started[2].messages) = 1
    /\ pendingReplies = NO_ENTRY

\* C36 (as claimed): a message is queued for a reply only while the contact is
\* in the auto-reply list, and sendDebouncedReply sends its reply to the
\* contact only while the contact is in the auto-reply list.
C36_NoReplyAfterDisable ==
    [][/\ Len(accepted') > Len(accepted) => autoReply
       /\ (Len(created') > Len(created) /\ created'[Len(created')].byBot) => autoReply]_vars


\* C34 (as claimed): the text returned with outcome SENT_SUGGESTION is a
\* suggestion the completion service gave as judge; the shortening instruction
\* verify builds itself on a gross length violation is never the value
\* thinkAndReply returns.
C34_LocalInstructionNeverReturned ==
    FinalOutcome = "SENT_SUGGESTION"
        => /\ VerifyCalls # <<>>
           /\ VerifyCalls[Len(VerifyCalls)].llm
           /\ ~startsWith(ret.value, <<"S", "h", "o", "r", "t", "e", "n", " ", "t", "o", " ",
                                       "a", "r", "o", "u", "n", "d", " ">>)


\* C35 (as claimed): the emergency override never lowers the allowed length:
\* whatever the word statistics, the upper bound a stage computes with the
\* emergency flag set is at least the bound it computes without the flag.
C35_EmergencyNeverLowersBound ==
    (fn = "stageBounds" /\ fnIn.isEmergency)
        => \E wordStats \in {getWordCountStats(ConversationFlow(fnIn.recentMessages))} :
              \A stage \in {"decide", "write", "verify", "rewrite"} :
                  fnOut[stage] >= StageBounds(wordStats, FALSE)[stage]


\* C37 (as claimed): once cancelJob(id) has returned true the message of job id
\* is not sent any more, also when the job's callback was already generating
\* its message at the time of the cancel.
C37_NothingSentAfterCancel ==
    [][\A id \in cancelled : CopiesIn(id, delivered') <= CopiesIn(id, delivered)]_vars

\* C38 (as claimed): each scheduled entry is sent at most once, whatever the
\* sequence of scheduleMessage, init, cancelJob and job firings, init running
\* again on a later 'ready' event included.
C38_EachEntrySentAtMostOnce ==
    \A id \in BagToSet(delivered) : CopiesIn(id, delivered) <= 1

\* C39 (as claimed): after init and after every completed scheduleMessage,
\* cancelJob and job firing (no callback is in progress) the ids in activeJobs
\* are the ids in the persisted list, each id occurs once in either, and a job
\* whose callback ended, with or without a send, is in neither.
C39_JobsMatchPersistedEntries ==
    /\ [](schedulerUp /\ running = {} =>
            /\ {item.entry.id : item \in activeJobs}
                  = {scheduledMessages[i].id : i \in 1..Len(scheduledMessages)}
            /\ \A a, b \in activeJobs : a.entry.id = b.entry.id => a = b
            /\ \A i, j \in 1..Len(scheduledMessages) :
                  scheduledMessages[i].id = scheduledMessages[j].id => i = j)
    /\ [][schedulerUp' =>
            \A item \in (liveJobs \cup running) \ (liveJobs' \cup running') :
                /\ \A a \in activeJobs' : a.entry.id # item.entry.id
                /\ \A i \in 1..Len(scheduledMessages') :
                      scheduledMessages'[i].id # item.entry.id]_vars


\* C40 (as claimed): a pending clarification is consumed by at most one reply:
\* every message handled (a command, or a reply that handleClarification takes)
\* leaves no clarification pending, a reply is taken only while one is pending
\* and its 60 seconds have not passed, and a clarification becomes pending only
\* through the command typed last, never through a command typed before a
\* later command or reply.
C40_PendingSetOnlyByLatestCommand ==
    [][/\ typed' > typed => pendingClarification' = NO_PENDING
       /\ (/\ typed' > typed
           /\ ~(Len(handlers') > Len(handlers) /\ handlers'[Len(handlers')].by = "command"))
             => (pendingClarification # NO_PENDING /\ ~Expired(pendingClarification))
       /\ (pendingClarification' # NO_PENDING /\ Len(selfChat') > Len(selfChat))
             => \E i \in 1..Len(handlers) :
                   /\ handlers' = Without(handlers, i)
                   /\ handlers[i].by = "command"
                   /\ handlers[i].parsing = typed]_vars

====
